---------------------------- MODULE Spec2Model ----------------------------
(***************************************************************************)
(* A model of vascop: the zenith-shift stage of the projection             *)
(* (projections/zenith.py), the matcher base class (matchers/base.py) and  *)
(* the main window that drives them (main.py).                             *)
(*                                                                         *)
(* Numbers.  An angle is q quarter turns plus t units of 1e-16 rad:        *)
(*     [q |-> q, t |-> t]   stands for   q * (pi/2) + t * 1e-16.           *)
(* A plain number is c + d * 1e-16: [c |-> c, d |-> d].  Trigonometry is   *)
(* exact on the quarter turns and of first order in the small part, which  *)
(* is what float64 computes there (cos(1e-14) = 1.0, sin(1e-14) = 1e-14).  *)
(* Rounding is modelled in one place, the last addition of np.mod, where   *)
(* it decides whether the result is below 2*pi.                            *)
(***************************************************************************)
EXTENDS Integers, Sequences, FiniteSets, TLC

VARIABLES
    zs,               \* the zenith-shift scenario: a shifter, a point, its image and pre-image
    es,               \* the error-summary scenario: a matcher, a residual array, its summaries
    nm,               \* the fit scenario: Matcher.minimize on a start vector
    ms,               \* the masking scenario: a mask sequence, reset and applied again
    sm,               \* the correction scenario: smoothers, correction plots and queries
    wb,               \* the write-back scenario: values going to the parameter controls
    ft,               \* the fit-in-flight scenario: MainWindow.minimize and the event queue
    pj,               \* the projection scenario: the projection instances made so far
    sk,               \* the sky scenario: a matcher, its cached sky and the reads of it
    er,               \* the residuals scenario: what the cached errors were computed from
    up,               \* the redraw scenario: the plots' validity flags and what was drawn
    ct,               \* the construction scenario: MainWindow.__init__ step by step
    rw,               \* the controls scenario: the 12 values read and written back
    dsb,              \* the window's controls
    location,         \* MainWindow.location
    time,             \* MainWindow.time
    projection,       \* MainWindow.projection
    matcher,          \* MainWindow.matcher
    sensor_data,      \* the matcher's sensor stars (matcher.sensor_data.stars)
    catalogue,        \* the matcher's catalogue (matcher.catalogue)
    position_errors,  \* MainWindow.position_errors
    nobj,             \* the matchers created so far
    last              \* the handler that ran last

zvars == <<zs>>
evars == <<es>>
nvars == <<nm>>
wvars == <<dsb, location, time, projection, matcher, sensor_data, catalogue,
           position_errors, nobj, last>>
tvars == <<ms, sm, wb, ft, pj, sk, er, up, ct, rw>>
svars == <<zs, es, nm, ms, sm, wb, ft, pj, sk, er, up, ct, rw>>
vars == <<zs, es, nm, ms, sm, wb, ft, pj, sk, er, up, ct, rw, dsb, location, time, projection, matcher, sensor_data, catalogue,
          position_errors, nobj, last>>

---------------------------------------------------------------------------
(* Arithmetic                                                              *)

AbsI(x) == IF x < 0 THEN -x ELSE x

Ang(q, t) == [q |-> q, t |-> t]
Num(c, d) == [c |-> c, d |-> d]

AngAdd(x, y) == Ang(x.q + y.q, x.t + y.t)
AngSub(x, y) == Ang(x.q - y.q, x.t - y.t)

\* x < y for angles whose small parts are far below a quarter turn
AngLess(x, y) == x.q < y.q \/ (x.q = y.q /\ x.t < y.t)
AngLeq(x, y) == x = y \/ AngLess(x, y)

CosQ(q) == CASE q % 4 = 0 -> 1 [] q % 4 = 1 -> 0 [] q % 4 = 2 -> -1 [] q % 4 = 3 -> 0
SinQ(q) == CASE q % 4 = 0 -> 0 [] q % 4 = 1 -> 1 [] q % 4 = 2 -> 0 [] q % 4 = 3 -> -1

\* np.cos, np.sin
Cos(x) == Num(CosQ(x.q), -SinQ(x.q) * x.t)
Sin(x) == Num(SinQ(x.q), CosQ(x.q) * x.t)

Mul(x, y) == Num(x.c * y.c, x.c * y.d + x.d * y.c)
Sub(x, y) == Num(x.c - y.c, x.d - y.d)
Add(x, y) == Num(x.c + y.c, x.d + y.d)
Neg(x) == Num(-x.c, -x.d)

\* x / y.  The divisor is +-1 (to first order) or a small nonzero number under a
\* small numerator.
Div(x, y) ==
    CASE y.c # 0 -> Num(x.c * y.c, x.d * y.c - x.c * y.d)
      [] y.c = 0 /\ y.d # 0 /\ x.c = 0 -> Num(IF (x.d < 0) = (y.d < 0)
                                               THEN AbsI(x.d) \div AbsI(y.d)
                                               ELSE -(AbsI(x.d) \div AbsI(y.d)), 0)

\* np.arccos on -1, 0, 1 and next to 0
ArcCos(x) ==
    CASE x.c = 0 -> Ang(1, -x.d)
      [] x.c = 1 /\ x.d = 0 -> Ang(0, 0)
      [] x.c = -1 /\ x.d = 0 -> Ang(2, 0)

\* np.arctan2(y, x) on and next to the axes; arctan2(0, 0) = 0
ArcTan2(y, x) ==
    CASE x.c > 0 /\ y.c = 0 -> Ang(0, y.d)
      [] x.c < 0 /\ y.c = 0 -> IF y.d >= 0 THEN Ang(2, -y.d) ELSE Ang(-2, -y.d)
      [] x.c = 0 /\ y.c > 0 -> Ang(1, -x.d)
      [] x.c = 0 /\ y.c < 0 -> Ang(-1, x.d)
      [] x.c = 0 /\ y.c = 0 /\ y.d = 0 -> IF x.d >= 0 THEN Ang(0, 0) ELSE Ang(2, 0)
      [] x.c = 0 /\ y.c = 0 /\ x.d = 0 /\ y.d > 0 -> Ang(1, 0)
      [] x.c = 0 /\ y.c = 0 /\ x.d = 0 /\ y.d < 0 -> Ang(-1, 0)

\* The spacing of float64 just below 2*pi, 2^-50 = 8.9e-16, in units of 1e-16.
Ulp2Pi == 9

\* np.mod(a, 2 * np.pi): r = fmod(a, 2*pi) has the sign of a and is exact; a negative
\* r is moved up by r + 2*pi, a float64 addition, which rounds to 2*pi itself when
\* -r is less than half the spacing of the floats there.
Mod2Pi(a) ==
    LET neg == a.q < 0 \/ (a.q = 0 /\ a.t < 0)
        \* fmod: the remainder of the magnitude, with the sign of a
        mq == IF neg THEN -((-a.q) % 4) ELSE a.q % 4
        r == Ang(mq, a.t)
        rneg == r.q < 0 \/ (r.q = 0 /\ r.t < 0)
    IN  IF ~rneg THEN r
        ELSE IF r.q = 0 /\ 2 * AbsI(r.t) < Ulp2Pi THEN Ang(4, 0)
        ELSE Ang(r.q + 4, r.t)

---------------------------------------------------------------------------
(* projections/zenith.py                                                   *)

\* 1e-14 in units of 1e-16
Threshold == 100

CallSmall_Narrow(epsilon) == epsilon.q = 0 /\ 10 * AbsI(epsilon.t) < Threshold
\* abs(self.epsilon) < 1e-14 in __call__
CallSmall(epsilon) == epsilon.q = 0 /\ AbsI(epsilon.t) < Threshold

InvertSmall_Wide(epsilon) == epsilon.q = 0 /\ AbsI(epsilon.t) < 10 * Threshold
\* abs(self.epsilon) < 1e-14 in invert
InvertSmall(epsilon) == epsilon.q = 0 /\ AbsI(epsilon.t) < Threshold

NoShift == [z |-> Ang(0, 0), a |-> Ang(0, 0), branch |-> "none", divisors |-> {}]

\* ZenithShifter.__call__(u, b); divisors records what the call divided by
ZenithShifterCall(epsilon, E, u, b) ==
    IF CallSmall(epsilon)
    THEN [z |-> u, a |-> Mod2Pi(AngAdd(E, b)), branch |-> "degenerate", divisors |-> {}]
    ELSE LET cosz == Sub(Mul(Cos(u), Cos(epsilon)),
                         Mul(Mul(Sin(u), Sin(epsilon)), Cos(b)))
             sna == Mul(Sin(b), Sin(u))
             cna == Div(Sub(Cos(u), Mul(Cos(epsilon), cosz)), Sin(epsilon))
         IN  [z |-> ArcCos(cosz), a |-> Mod2Pi(AngAdd(E, ArcTan2(sna, cna))),
              branch |-> "spherical", divisors |-> {Sin(epsilon)}]

\* ZenithShifter.invert(z, a); the result's z is u and its a is b
ZenithShifterInvert(epsilon, E, z, a) ==
    IF InvertSmall(epsilon)
    THEN [z |-> z, a |-> Mod2Pi(AngSub(a, E)), branch |-> "degenerate", divisors |-> {}]
    ELSE LET cosu == Add(Mul(Cos(z), Cos(epsilon)),
                         Mul(Mul(Sin(z), Sin(epsilon)), Cos(AngSub(a, E))))
             sna == Mul(Sin(AngSub(a, E)), Sin(z))
             cna == Neg(Div(Sub(Cos(z), Mul(Cos(epsilon), cosu)), Sin(epsilon)))
         IN  [z |-> ArcCos(cosu), a |-> Mod2Pi(ArcTan2(sna, cna)),
              branch |-> "spherical", divisors |-> {Sin(epsilon)}]

\* The shifters and points of the scenario.  epsilon: zero, below the threshold, at
\* and above it, and a quarter turn either way (sin(epsilon) = 0 beyond the small
\* branch, epsilon = pi, is left out: the code divides by sin(pi) = 1.2e-16 there).
EpsilonSet == {Ang(0, t) : t \in {0, 10, -10, 99, -99, 100, -100, 150, 999, 1000}}
                  \cup {Ang(1, 0), Ang(-1, 0)}
ESet == {Ang(0, 0), Ang(0, -1), Ang(0, -5), Ang(0, 30), Ang(1, 0), Ang(-1, 0), Ang(3, 0)}
USet == {Ang(0, 0), Ang(1, 0), Ang(2, 0)}
BSet == {Ang(0, 0), Ang(1, 0), Ang(2, 0), Ang(3, 0)}

ZInit ==
    \E epsilon \in EpsilonSet, E \in ESet, u \in USet, b \in BSet :
        zs = [epsilon |-> epsilon, E |-> E, u |-> u, b |-> b,
              fwd |-> NoShift, inv |-> NoShift, pc |-> "new"]

\* z, a = shifter(u, b)
Forward ==
    /\ zs.pc = "new"
    /\ zs' = [zs EXCEPT !.fwd = ZenithShifterCall(zs.epsilon, zs.E, zs.u, zs.b),
                        !.pc = "shifted"]
    /\ UNCHANGED <<es, nm, tvars, wvars>>

\* u, b = shifter.invert(z, a)
Invert ==
    /\ zs.pc = "shifted"
    /\ zs' = [zs EXCEPT !.inv = ZenithShifterInvert(zs.epsilon, zs.E, zs.fwd.z, zs.fwd.a),
                        !.pc = "inverted"]
    /\ UNCHANGED <<es, nm, tvars, wvars>>

---------------------------------------------------------------------------
(* matchers/base.py: the error summaries                                   *)

RECURSIVE SumSq(_)
\* np.sum(np.square(errors))
SumSq(errors) == IF errors = <<>> THEN 0
                 ELSE Head(errors) * Head(errors) + SumSq(Tail(errors))

RECURSIVE SeqMax(_)
\* np.max(errors), errors not empty
SeqMax(errors) == IF Len(errors) = 1 THEN errors[1]
                  ELSE LET m == SeqMax(Tail(errors))
                       IN  IF errors[1] > m THEN errors[1] ELSE m

\* A float result: NaN, or the number v, or the square root of num / den.
NaN == [kind |-> "nan", v |-> 0, num |-> 0, den |-> 1]
Value(v) == [kind |-> "value", v |-> v, num |-> 0, den |-> 1]
Sqrt(num, den) == [kind |-> "sqrt", v |-> 0, num |-> num, den |-> den]

\* Matcher.count, abstract in the base class: the number of stars, masked or not
Count(m) == m.count

avg_error_by_valid(m, errors) ==
    IF Len(errors) = 0 THEN NaN ELSE Sqrt(SumSq(errors), m.count_valid)
\* Matcher.avg_error(errors)
avg_error(m, errors) ==
    IF Len(errors) = 0 THEN NaN ELSE Sqrt(SumSq(errors), Count(m))

\* Matcher.max_error(errors)
max_error(m, errors) ==
    IF Len(errors) = 0 THEN NaN ELSE Value(SeqMax(errors))

\* The largest matcher and the largest residual of the scenario.
MaxCount == 3
MaxResidual == 2

Residuals == -MaxResidual .. MaxResidual
ResidualArrays(n) == [1..n -> Residuals]

\* A matcher with count stars, count_valid of them valid, and a residual array with
\* an entry per star (masked = False) or per valid star (masked = True).
EInit ==
    \E count \in 0..MaxCount :
        \E count_valid \in 0..count :
            \E n \in {count, count_valid} :
                \E errors \in ResidualArrays(n) :
                    es = [m |-> [count |-> count, count_valid |-> count_valid],
                          errors |-> errors, avg |-> NaN, max |-> NaN, pc |-> "new"]

\* showErrors: avg_error and max_error of the same array
Summarise ==
    /\ es.pc = "new"
    /\ es' = [es EXCEPT !.avg = avg_error(es.m, es.errors),
                        !.max = max_error(es.m, es.errors),
                        !.pc = "done"]
    /\ UNCHANGED <<zs, nm, tvars, wvars>>

---------------------------------------------------------------------------
(* matchers/base.py: Matcher.minimize                                      *)

\* The order of the parameter vector: MainWindow.getConstantsTuple, the x0 of the fit
ParamOrder == <<"x0", "y0", "a0", "A", "F", "V", "S", "D", "P", "Q", "eps", "E">>

Position(name) == CHOOSE i \in 1..Len(ParamOrder) : ParamOrder[i] = name

\* A bound is the set of its limits: None is the empty set
None == {}
Free == [lo |-> None, hi |-> None]
NonNegative == [lo |-> {0}, hi |-> None]

BoundsOneEarly ==
    <<Free, Free, Free, Free, NonNegative, Free, Free, Free, Free, NonNegative, Free, Free>>
\* bounds=(...) of sp.optimize.minimize
Bounds ==
    <<Free, Free, Free, Free, Free, NonNegative, Free, Free, Free, Free, NonNegative, Free>>

\* np.clip(x, lower, upper), which Nelder-Mead applies to x0 and to every point it tries
Clip(x) ==
    [i \in 1..Len(x) |->
        IF \E lo \in Bounds[i].lo : x[i] < lo THEN CHOOSE lo \in Bounds[i].lo : TRUE
        ELSE IF \E hi \in Bounds[i].hi : x[i] > hi THEN CHOOSE hi \in Bounds[i].hi : TRUE
        ELSE x[i]]

\* The most iterations asked for, and the farthest a coordinate moves from 0.
MaxIter == 2
MaxCoord == 2

\* Start vectors: the default x0 of minimize (all zero but V), with V and eps on
\* either side of their bound.
StartVectors ==
    {[i \in 1..12 |-> IF i = 6 THEN v ELSE IF i = 11 THEN e ELSE 0] :
        v \in {-1, 0, 1}, e \in {-1, 0, 1}}

NInit ==
    \E x0 \in StartVectors, maxiter \in 1..MaxIter :
        nm = [x0 |-> x0, maxiter |-> maxiter, x |-> x0, iter |-> 0, pc |-> "called",
              success |-> FALSE, nit |-> 0, controls |-> <<>>, alive |-> TRUE]

\* sp.optimize.minimize(self.func, x0, method='Nelder-Mead', bounds=...) starts from
\* x0 clipped to the bounds
NMStart ==
    /\ nm.pc = "called"
    /\ nm' = [nm EXCEPT !.x = Clip(nm.x0), !.pc = "iterating"]
    /\ UNCHANGED <<zs, es, tvars, wvars>>

\* One iteration: the simplex tries a point (reflection, expansion, contraction or
\* shrink), clips it, and keeps it when self.func is lower there.  The objective is
\* the subclass's: which point wins is open.
NMIterate ==
    /\ nm.pc = "iterating"
    /\ nm.iter < nm.maxiter
    /\ \E i \in 1..12, d \in {-1, 0, 1} :
        /\ AbsI(nm.x[i] + d) <= MaxCoord
        /\ nm' = [nm EXCEPT !.x = Clip([nm.x EXCEPT ![i] = nm.x[i] + d]),
                            !.iter = nm.iter + 1]
    /\ UNCHANGED <<zs, es, tvars, wvars>>

\* minimize raising when the minimizer has not converged
NMReturn_Raises ==
    /\ nm.pc = "iterating"
    /\ \E converged \in BOOLEAN :
        /\ ~converged => nm.iter = nm.maxiter
        /\ nm' = IF converged
                 THEN [nm EXCEPT !.pc = "returned", !.success = TRUE, !.nit = nm.iter]
                 ELSE [nm EXCEPT !.pc = "raised", !.alive = FALSE]
    /\ UNCHANGED <<zs, es, tvars, wvars>>

\* return result: the OptimizeResult with x, success and nit, on convergence
\* (success) or with maxiter iterations done (success or not)
NMReturn ==
    /\ nm.pc = "iterating"
    /\ \E converged \in BOOLEAN :
        /\ ~converged => nm.iter = nm.maxiter
        /\ nm' = [nm EXCEPT !.pc = "returned", !.success = converged, !.nit = nm.iter]
    /\ UNCHANGED <<zs, es, tvars, wvars>>

\* MainWindow.minimize: x0, y0, ... = tuple(result.x), and each goes to its control
NMApply ==
    /\ nm.pc = "returned"
    /\ nm.alive
    /\ nm' = [nm EXCEPT !.pc = "applied", !.controls = nm.x]
    /\ UNCHANGED <<zs, es, tvars, wvars>>

---------------------------------------------------------------------------
(* The matchers (Matchmaker, Counselor) and their containers.  Positions   *)
(* are on a line: a sensor star at x is projected to x + par, a catalogue  *)
(* star at c stands at c + location + time in the local frame.             *)

\* The sensor-data files: where and when each was taken, and its stars
Files == {1, 2}
FileLocation(f) == IF f = 1 THEN 0 ELSE 1
FileTime(f) == IF f = 1 THEN 0 ELSE 1
FileStars(f) == IF f = 1 THEN <<0, 3>> ELSE <<2>>

\* catalogue/HYG30.tsv: positions and visual magnitudes
CatalogueSky == <<0, 3>>
CatalogueVmag == <<1, 4>>

\* count, of the sensor stars and of the catalogue: the length of the sequence
StarCount(st) == Len(FileStars(st.file))
CatalogueCount == Len(CatalogueSky)

AllValid(n) == [i \in 1..n |-> TRUE]
CountValid(c) == Cardinality({i \in 1..Len(c.valid) : c.valid[i]})

\* the values of r at the indices in I, in order
Pick(r, I) ==
    LET idx == SelectSeq([i \in 1..Len(r) |-> i], LAMBDA i : i \in I)
    IN  [k \in 1..Len(idx) |-> r[idx[k]]]

SetMin(S) == CHOOSE x \in S : \A y \in S : x <= y

\* BorovickaProjection(*constants) applied to a sensor star
Project(proj, x) == x + proj.par
\* catalogue.altaz(location, time)
Sky(m, j) == CatalogueSky[j] + m.location + m.time

StarIdx(st, masked) == {i \in 1..Len(st.valid) : masked => st.valid[i]}
CatIdx(cat, masked) == {j \in 1..Len(cat.valid) : masked => cat.valid[j]}

\* The residual of sensor star i against the catalogue stars J: to the closest of
\* them (Matchmaker), to its partner (Counselor).
HasResidual(m, i, J) ==
    IF m.kind = "Matchmaker" THEN J # {} ELSE m.pairing[i] \in J
Residual(m, st, proj, i, J) ==
    LET x == Project(proj, FileStars(st.file)[i])
    IN  IF m.kind = "Matchmaker"
        THEN SetMin({AbsI(x - Sky(m, j)) : j \in J})
        ELSE AbsI(x - Sky(m, m.pairing[i]))

\* matcher.position_errors(projection, masked)
PositionErrors(m, st, cat, proj, masked) ==
    LET J == CatIdx(cat, masked)
        I == {i \in StarIdx(st, masked) : HasResidual(m, i, J)}
    IN  Pick([i \in 1..Len(st.valid) |->
                 IF HasResidual(m, i, J) THEN Residual(m, st, proj, i, J) ELSE 0], I)

\* matcher.position_errors(projection, masked=False) > limit, per sensor star
SensorBeyond(m, st, cat, proj, limit) ==
    LET J == CatIdx(cat, FALSE)
    IN  [i \in 1..Len(st.valid) |->
            HasResidual(m, i, J) /\ Residual(m, st, proj, i, J) > limit]

\* matcher.errors_inverse(projection, masked=False) > limit, per catalogue star
CatalogueBeyond(m, st, cat, proj, limit) ==
    [j \in 1..Len(cat.valid) |->
        SetMin({AbsI(Project(proj, FileStars(st.file)[i]) - Sky(m, j)) :
                   i \in 1..Len(st.valid)}) > limit]

\* matcher.catalogue.vmag > limit
CatalogueFainter(cat, limit) == [j \in 1..Len(cat.valid) |-> CatalogueVmag[j] > limit]

\* mask_sensor_data(exclude), mask_catalogue(exclude): a further exclusion
Mask(c, exclude) ==
    [c EXCEPT !.valid = [i \in 1..Len(c.valid) |-> c.valid[i] /\ ~exclude[i]]]
\* reset_mask(), for one container
ResetMask(c) == [c EXCEPT !.valid = AllValid(Len(c.valid))]

\* Matchmaker(location, time), with sensor_data.load and load_catalogue
Matchmaker(id, loc, t) ==
    [kind |-> "Matchmaker", id |-> id, containers |-> id, location |-> loc, time |-> t,
     pairing |-> <<>>]

\* The correspondence pair computes: each valid sensor star with the closest valid
\* catalogue star (the first of equally close ones), 0 for a star left alone.
Pairing(m, st, cat, proj) ==
    LET J == CatIdx(cat, TRUE)
        d(i, j) == AbsI(Project(proj, FileStars(st.file)[i]) - Sky(m, j))
    IN  [i \in 1..Len(st.valid) |->
            IF st.valid[i] /\ J # {}
            THEN SetMin({j \in J : \A k \in J : d(i, j) <= d(i, k)})
            ELSE 0]

\* matcher.pair(projection): a new Counselor
Pair(m, st, cat, proj, id) ==
    [kind |-> "Counselor", id |-> id, containers |-> m.containers,
     location |-> m.location, time |-> m.time, pairing |-> Pairing(m, st, cat, proj)]

\* update building the matcher anew instead of setting its two fields
Update_Fresh(m, loc, t) == Matchmaker(m.id, loc, t)

\* matcher.update(location, time)
Update(m, loc, t) == [m EXCEPT !.location = loc, !.time = t]

---------------------------------------------------------------------------
(* main.py: the window                                                     *)

\* The largest value of the parameter control, and the most matchers a session makes.
MaxPar == 1
MaxObjects == 3

Pars == 0..MaxPar
Locations == {0, 1}
Times == {0, 1}
ErrorLimits == {0, 1}
DistanceLimits == {0, 1}
MagnitudeLimits == {0, 2, 4}

\* BorovickaProjection(*self.getConstantsTuple())
Projection(d) == [par |-> d.par]

\* MainWindow.__init__: loadYAML of the first file, importConstants, onParametersChanged
WInit ==
    /\ dsb = [par |-> 0, loc |-> FileLocation(1), time |-> FileTime(1), error_limit |-> 1]
    /\ location = FileLocation(1)
    /\ time = FileTime(1)
    /\ projection = Projection([par |-> 0])
    /\ matcher = Matchmaker(1, FileLocation(1), FileTime(1))
    /\ sensor_data = [file |-> 1, valid |-> AllValid(Len(FileStars(1)))]
    /\ catalogue = [valid |-> AllValid(Len(CatalogueSky))]
    /\ position_errors =
           PositionErrors(Matchmaker(1, FileLocation(1), FileTime(1)),
                          [file |-> 1, valid |-> AllValid(Len(FileStars(1)))],
                          [valid |-> AllValid(Len(CatalogueSky))],
                          Projection([par |-> 0]), TRUE)
    /\ nobj = 1
    /\ last = "init"

\* computePositionErrors, by matcher m on containers st and cat under proj
computePositionErrors(m, st, cat, proj) ==
    position_errors' = PositionErrors(m, st, cat, proj, TRUE)

\* onParametersChanged with the controls at d: updateProjection, then the errors
onParametersChanged(d, m, st, cat) ==
    /\ projection' = Projection(d)
    /\ computePositionErrors(m, st, cat, Projection(d))

\* onLocationTimeChanged pairing a paired matcher again at the new place and time
onLocationTimeChanged_Repairs(loc, t, st, cat, proj) ==
    LET m == Update(matcher, loc, t)
        r == IF m.kind = "Counselor"
             THEN [m EXCEPT !.pairing = Pairing(m, st, cat, proj)]
             ELSE m
    IN  /\ matcher' = r
        /\ computePositionErrors(r, st, cat, proj)

\* onLocationTimeChanged: updateMatcher, then the errors
onLocationTimeChanged(loc, t, st, cat, proj) ==
    /\ matcher' = Update(matcher, loc, t)
    /\ computePositionErrors(Update(matcher, loc, t), st, cat, proj)

\* MainWindow.paired
Paired == matcher.kind = "Counselor"

\* A parameter control is edited: valueChanged -> onParametersChanged
ParameterEdited ==
    \E v \in Pars \ {dsb.par} :
        /\ dsb' = [dsb EXCEPT !.par = v]
        /\ onParametersChanged([dsb EXCEPT !.par = v], matcher, sensor_data, catalogue)
        /\ last' = "onParametersChanged"
        /\ UNCHANGED <<svars, location, time, matcher, sensor_data, catalogue, nobj>>

\* dt_time is edited: dateTimeChanged -> updateTime, onTimeChanged
onTimeChanged ==
    \E t \in Times \ {dsb.time} :
        /\ dsb' = [dsb EXCEPT !.time = t]
        /\ time' = t
        /\ onLocationTimeChanged(location, t, sensor_data, catalogue, projection)
        /\ last' = "onTimeChanged"
        /\ UNCHANGED <<svars, location, projection, sensor_data, catalogue, nobj>>

\* dsb_lat or dsb_lon is edited: valueChanged -> onLocationChanged
onLocationChanged ==
    \E loc \in Locations \ {dsb.loc} :
        /\ dsb' = [dsb EXCEPT !.loc = loc]
        /\ location' = loc
        /\ onLocationTimeChanged(loc, time, sensor_data, catalogue, projection)
        /\ last' = "onLocationChanged"
        /\ UNCHANGED <<svars, time, projection, sensor_data, catalogue, nobj>>

\* selectStation(index): the station's place goes to the controls (whose valueChanged
\* runs onLocationChanged), then updateMatcher and onLocationTimeChanged
selectStation ==
    \E loc \in Locations :
        /\ dsb' = [dsb EXCEPT !.loc = loc]
        /\ location' = loc
        /\ onLocationTimeChanged(loc, time, sensor_data, catalogue, projection)
        /\ last' = "selectStation"
        /\ UNCHANGED <<svars, time, projection, sensor_data, catalogue, nobj>>

\* dsb_error_limit is edited
onErrorLimitChanged ==
    \E l \in ErrorLimits \ {dsb.error_limit} :
        /\ dsb' = [dsb EXCEPT !.error_limit = l]
        /\ last' = "onErrorLimitChanged"
        /\ UNCHANGED <<svars, location, time, projection, matcher, sensor_data,
                       catalogue, position_errors, nobj>>

\* maskSensor: position_errors(masked=False) > limit goes to mask_sensor_data
MaskedSensor(m, st, cat, proj, limit) ==
    Mask(st, SensorBeyond(m, st, cat, proj, limit))
\* maskCatalogueDistant: errors_inverse(masked=False) > limit goes to mask_catalogue
MaskedCatalogueDistant(m, st, cat, proj, limit) ==
    Mask(cat, CatalogueBeyond(m, st, cat, proj, limit))
\* maskCatalogueFaint taking the faint stars out of the mask instead of marking them
MaskedCatalogueFaint_Drops(cat, limit) ==
    [cat EXCEPT !.valid = Pick(cat.valid, {j \in 1..Len(cat.valid) :
                                              ~CatalogueFainter(cat, limit)[j]})]

\* maskCatalogueFaint: catalogue.vmag > limit goes to mask_catalogue
MaskedCatalogueFaint(cat, limit) ==
    Mask(cat, CatalogueFainter(cat, limit))

\* resetValid turning every mask over instead of setting it
ResetValid_Inverts(st, cat) ==
    [st |-> [st EXCEPT !.valid = [i \in 1..Len(st.valid) |-> ~st.valid[i]]],
     cat |-> [cat EXCEPT !.valid = [j \in 1..Len(cat.valid) |-> ~cat.valid[j]]]]

\* resetValid: matcher.reset_mask(), on both containers
ResetValid(st, cat) == [st |-> ResetMask(st), cat |-> ResetMask(cat)]

\* maskSensor excluding from all the stars instead of from the valid ones
maskSensor_Replaces ==
    /\ sensor_data' = Mask(ResetMask(sensor_data),
           SensorBeyond(matcher, sensor_data, catalogue, projection, dsb.error_limit))
    /\ onParametersChanged(dsb, matcher, sensor_data', catalogue)
    /\ last' = "maskSensor"
    /\ UNCHANGED <<svars, dsb, location, time, matcher, catalogue, nobj>>

maskSensor ==
    /\ sensor_data' = MaskedSensor(matcher, sensor_data, catalogue, projection,
                                   dsb.error_limit)
    /\ onParametersChanged(dsb, matcher, sensor_data', catalogue)
    /\ last' = "maskSensor"
    /\ UNCHANGED <<svars, dsb, location, time, matcher, catalogue, nobj>>

maskCatalogueDistant ==
    \E limit \in DistanceLimits :
        /\ catalogue' = MaskedCatalogueDistant(matcher, sensor_data, catalogue,
                                               projection, limit)
        /\ computePositionErrors(matcher, sensor_data, catalogue', projection)
        /\ last' = "maskCatalogueDistant"
        /\ UNCHANGED <<svars, dsb, location, time, projection, matcher, sensor_data, nobj>>

maskCatalogueFaint ==
    \E limit \in MagnitudeLimits :
        /\ catalogue' = MaskedCatalogueFaint(catalogue, limit)
        /\ computePositionErrors(matcher, sensor_data, catalogue', projection)
        /\ last' = "maskCatalogueFaint"
        /\ UNCHANGED <<svars, dsb, location, time, projection, matcher, sensor_data, nobj>>

resetValid ==
    /\ sensor_data' = ResetValid(sensor_data, catalogue).st
    /\ catalogue' = ResetValid(sensor_data, catalogue).cat
    /\ onParametersChanged(dsb, matcher, sensor_data', catalogue')
    /\ last' = "resetValid"
    /\ UNCHANGED <<svars, dsb, location, time, matcher, nobj>>

\* MainWindow.pair: the matcher is replaced by what matcher.pair returns; the errors
\* are not computed again
pair ==
    /\ nobj < MaxObjects
    /\ matcher' = Pair(matcher, sensor_data, catalogue, projection, nobj + 1)
    /\ nobj' = nobj + 1
    /\ last' = "pair"
    /\ UNCHANGED <<svars, dsb, location, time, projection, sensor_data, catalogue,
                   position_errors>>

\* MainWindow.minimize: the fitted vector goes to the controls, then onParametersChanged
minimize ==
    \E v \in Pars :
        /\ dsb' = [dsb EXCEPT !.par = v]
        /\ onParametersChanged([dsb EXCEPT !.par = v], matcher, sensor_data, catalogue)
        /\ last' = "minimize"
        /\ UNCHANGED <<svars, location, time, matcher, sensor_data, catalogue, nobj>>

\* importFile: importConstants (the file's values, or none when it cannot be read),
\* then onParametersChanged
importFile ==
    \E v \in Pars :
        /\ dsb' = [dsb EXCEPT !.par = v]
        /\ onParametersChanged([dsb EXCEPT !.par = v], matcher, sensor_data, catalogue)
        /\ last' = "importFile"
        /\ UNCHANGED <<svars, location, time, matcher, sensor_data, catalogue, nobj>>

\* loadYAMLFile with a file chosen: loadYAML makes a new Matchmaker with the file's
\* place, time and stars and a freshly loaded catalogue; then onLocationTimeChanged
\* and onParametersChanged
loadYAMLFile ==
    \E f \in Files :
        /\ nobj < MaxObjects
        /\ dsb' = [dsb EXCEPT !.loc = FileLocation(f), !.time = FileTime(f)]
        /\ location' = FileLocation(f)
        /\ time' = FileTime(f)
        /\ matcher' = Matchmaker(nobj + 1, FileLocation(f), FileTime(f))
        /\ nobj' = nobj + 1
        /\ sensor_data' = [file |-> f, valid |-> AllValid(Len(FileStars(f)))]
        /\ catalogue' = [valid |-> AllValid(Len(CatalogueSky))]
        /\ onParametersChanged(dsb, matcher', sensor_data', catalogue')
        /\ last' = "loadYAMLFile"
        /\ UNCHANGED svars

\* loadYAMLFile with the dialog cancelled: no loadYAML; onLocationTimeChanged and
\* onParametersChanged still run
loadYAMLFileCancelled ==
    /\ onLocationTimeChanged(location, time, sensor_data, catalogue, Projection(dsb))
    /\ projection' = Projection(dsb)
    /\ last' = "loadYAMLFileCancelled"
    /\ UNCHANGED <<svars, dsb, location, time, sensor_data, catalogue, nobj>>

---------------------------------------------------------------------------
(* Masks applied, reset and applied again                                  *)

\* The longest mask sequence tried.
MaxMasks == 3

\* The masking operations of the window, with the limit each reads from its control
MaskOps ==
    [op : {"maskSensor"}, limit : ErrorLimits]
        \cup [op : {"maskCatalogueDistant"}, limit : DistanceLimits]
        \cup [op : {"maskCatalogueFaint"}, limit : MagnitudeLimits]

\* the containers after the masking operation o
ApplyMask(o, m, st, cat, proj) ==
    CASE o.op = "maskSensor" ->
            [st |-> MaskedSensor(m, st, cat, proj, o.limit), cat |-> cat]
      [] o.op = "maskCatalogueDistant" ->
            [st |-> st, cat |-> MaskedCatalogueDistant(m, st, cat, proj, o.limit)]
      [] o.op = "maskCatalogueFaint" ->
            [st |-> st, cat |-> MaskedCatalogueFaint(cat, o.limit)]

Counts(c) == [st |-> CountValid(c.st), cat |-> CountValid(c.cat)]

\* A file just loaded, every entry valid, unpaired or paired there; the projection,
\* the place and the time stay as they are.
MSInit ==
    \E f \in Files, v \in Pars, paired \in BOOLEAN :
        LET st == [file |-> f, valid |-> AllValid(Len(FileStars(f)))]
            cat == [valid |-> AllValid(Len(CatalogueSky))]
            proj == Projection([par |-> v])
            mm == Matchmaker(1, FileLocation(f), FileTime(f))
        IN  ms = [m |-> IF paired THEN Pair(mm, st, cat, proj, 2) ELSE mm,
                  proj |-> proj, c |-> [st |-> st, cat |-> cat],
                  seq |-> <<>>, pos |-> 0, first |-> [st |-> 0, cat |-> 0],
                  pc |-> "masking"]

MSOthers == <<zs, es, nm, sm, wb, ft, pj, sk, er, up, ct, rw, wvars>>

\* a masking operation, the first time
MSMask ==
    /\ ms.pc = "masking"
    /\ Len(ms.seq) < MaxMasks
    /\ \E o \in MaskOps :
          ms' = [ms EXCEPT !.c = ApplyMask(o, ms.m, ms.c.st, ms.c.cat, ms.proj),
                           !.seq = Append(ms.seq, o)]
    /\ UNCHANGED MSOthers

\* resetValid after the sequence
MSReset ==
    /\ ms.pc = "masking"
    /\ ms' = [ms EXCEPT !.first = Counts(ms.c),
                        !.c = ResetValid(ms.c.st, ms.c.cat),
                        !.pos = 1, !.pc = "replaying"]
    /\ UNCHANGED MSOthers

\* the same operations again, in order
MSReplay ==
    /\ ms.pc = "replaying"
    /\ ms.pos <= Len(ms.seq)
    /\ ms' = [ms EXCEPT !.c = ApplyMask(ms.seq[ms.pos], ms.m, ms.c.st, ms.c.cat, ms.proj),
                        !.pos = ms.pos + 1]
    /\ UNCHANGED MSOthers

MSDone ==
    /\ ms.pc = "replaying"
    /\ ms.pos > Len(ms.seq)
    /\ ms' = [ms EXCEPT !.pc = "replayed"]
    /\ UNCHANGED MSOthers

---------------------------------------------------------------------------
(* The correction fields, the correction plots and the queries made of     *)
(* them.  s is the window as far as the corrections go: the matcher's mode *)
(* and pairing, the projection, the bandwidth, what each smoother was last *)
(* built from, the chart shown, the correction plots' flags and pages, and *)
(* the queries the running handler has made.                               *)

\* The most pairings made in a session.
MaxPairs == 2

Bandwidths == {1, 2}
Charts == 0..6
Flags == {"dots", "meteor", "grid"}
Plots == {"positions", "magnitudes"}

\* update_position_smoother(projection) in updateMatcher names no bandwidth
DefaultBandwidth == "default"

\* a matcher's smoother before it is built, and one built under proj and b
NoField == [built |-> FALSE, projection |-> 0, bandwidth |-> DefaultBandwidth, pairing |-> 0]
Field(s, proj, b) == [built |-> TRUE, projection |-> proj, bandwidth |-> b,
                      pairing |-> s.pairing]

\* the field was built from what is in force now
Current(s, f) ==
    /\ f.built
    /\ f.projection = s.projection
    /\ f.bandwidth = s.bandwidth
    /\ f.pairing = s.pairing

\* matcher.update_position_smoother, update_magnitude_smoother: nothing when unpaired
update_position_smoother(s, proj, b) ==
    IF s.paired THEN [s EXCEPT !.position_smoother = Field(s, proj, b)] ELSE s
update_magnitude_smoother(s, proj, b) ==
    IF s.paired THEN [s EXCEPT !.magnitude_smoother = Field(s, proj, b)] ELSE s

\* plot.invalidate(), invalidate_dots(), invalidate_meteor(), invalidate_grid()
Invalidate(s, plot, flags) ==
    [s EXCEPT !.valid[plot] = [f \in Flags |-> IF f \in flags THEN FALSE ELSE @[f]]]
\* plot.update_dots, update_meteor, update_grid
Drawn(s, plot, flag) == [s EXCEPT !.valid[plot][flag] = TRUE]
\* tabs.setCurrentIndex(i)
SetPage(s, plot, i) == [s EXCEPT !.tabs[plot] = i]

\* a correction output asked of the matcher: by whom, in which mode, and whether
\* the field it reads was current
Query(s, fn, current) ==
    [s EXCEPT !.calls = @ \cup {[fn |-> fn, paired |-> s.paired, current |-> current]}]

\* correctMeteor without the test of the mode
correctMeteor_Unguarded(s) == Query(s, "print_meteor", TRUE)

correctMeteor(s) ==
    IF s.paired THEN Query(s, "print_meteor", TRUE) ELSE s

\* _plotCorrectionErrors (cb_show_errors checked)
plotCorrectionErrors(s, plot) ==
    IF s.paired THEN Drawn(SetPage(s, plot, 1), plot, "dots") ELSE SetPage(s, plot, 0)

\* _plotCorrectionMeteor
plotCorrectionMeteor(s, plot) ==
    IF s.paired
    THEN Drawn(Query(Query(SetPage(s, plot, 1),
                           "correction_meteor_xy", Current(s, s.position_smoother)),
                     "correction_meteor_mag", Current(s, s.magnitude_smoother)),
               plot, "meteor")
    ELSE SetPage(s, plot, 0)

\* plotPositionCorrectionGrid, plotMagnitudeCorrectionGrid: switch_tabs around
\* _plotCorrectionGrid (cb_show_grid checked)
plotCorrectionGrid(s, plot) ==
    IF s.paired
    THEN Drawn(IF plot = "positions"
               THEN Query(SetPage(s, plot, 1), "position_grid",
                          Current(s, s.position_smoother))
               ELSE Query(SetPage(s, plot, 1), "magnitude_grid",
                          Current(s, s.magnitude_smoother)),
               plot, "grid")
    ELSE SetPage(s, plot, 0)

\* updatePlots, for the correction charts
updatePlots(s) ==
    LET s0 == correctMeteor(s)
        plot == IF s0.index = 5 THEN "positions" ELSE "magnitudes"
        s1 == IF ~s0.valid[plot]["dots"] THEN plotCorrectionErrors(s0, plot) ELSE s0
        s2 == IF ~s1.valid[plot]["meteor"] THEN plotCorrectionMeteor(s1, plot) ELSE s1
        s3 == IF ~s2.valid[plot]["grid"] THEN plotCorrectionGrid(s2, plot) ELSE s2
    IN  IF s0.index \in {5, 6} THEN s3 ELSE s0

InvalidateBoth(s, flags) == Invalidate(Invalidate(s, "positions", flags), "magnitudes", flags)

\* onParametersChanged with the controls at v
CorrParametersChanged(s, v) ==
    LET s1 == InvalidateBoth([s EXCEPT !.projection = v], Flags)
    IN  updatePlots(update_position_smoother(s1, v, s1.bandwidth))

\* onLocationTimeChanged
CorrLocationTimeChanged(s) ==
    LET s1 == update_position_smoother(s, s.projection, DefaultBandwidth)
        s2 == update_position_smoother(s1, s1.projection, s1.bandwidth)
        s3 == update_magnitude_smoother(s2, s2.projection, s2.bandwidth)
    IN  updatePlots(InvalidateBoth(s3, Flags))

\* onBandwidthChanged with the control at b
CorrBandwidthChanged(s, b) ==
    LET s1 == [s EXCEPT !.bandwidth = b]
        s2 == update_position_smoother(s1, s1.projection, b)
        s3 == update_magnitude_smoother(s2, s2.projection, b)
    IN  updatePlots(InvalidateBoth(s3, {"grid", "meteor"}))

\* MainWindow.pair
CorrPair(s) ==
    LET s1 == [s EXCEPT !.paired = TRUE, !.pairing = s.pairing + 1,
                        !.position_smoother = NoField, !.magnitude_smoother = NoField]
        s2 == update_position_smoother(s1, s1.projection, s1.bandwidth)
        s3 == update_magnitude_smoother(s2, s2.projection, s2.bandwidth)
    IN  updatePlots(InvalidateBoth(s3, Flags))

\* loadYAMLFile: with a file chosen a new Matchmaker, then both handlers
CorrLoad(s, chosen) ==
    LET s1 == IF chosen
              THEN [s EXCEPT !.paired = FALSE, !.position_smoother = NoField,
                             !.magnitude_smoother = NoField]
              ELSE s
    IN  CorrParametersChanged(CorrLocationTimeChanged(s1), s1.projection)

\* the handler starts: nothing asked yet
Begin(s) == [s EXCEPT !.calls = {}]

\* The window as __init__ leaves it: unpaired, nothing drawn, onParametersChanged run.
\* The chart shown and the pages of the two stacks come from the form.
SMInit ==
    \E i \in Charts, tp, tm \in {0, 1}, b \in Bandwidths :
        sm = CorrParametersChanged(
                 [paired |-> FALSE, pairing |-> 0, projection |-> 0, bandwidth |-> b,
                  position_smoother |-> NoField, magnitude_smoother |-> NoField,
                  index |-> i,
                  valid |-> [p \in Plots |-> [f \in Flags |-> FALSE]],
                  tabs |-> [p \in Plots |-> IF p = "positions" THEN tp ELSE tm],
                  calls |-> {}, pc |-> "shown"], 0)

SMOthers == <<zs, es, nm, ms, wb, ft, pj, sk, er, up, ct, rw, wvars>>

\* a parameter control edited, a fit applied, constants imported, maskSensor, resetValid
SMParametersChanged ==
    /\ \E v \in Pars : sm' = CorrParametersChanged(Begin(sm), v)
    /\ UNCHANGED SMOthers

\* onTimeChanged, onLocationChanged, selectStation
SMLocationTimeChanged ==
    /\ sm' = CorrLocationTimeChanged(Begin(sm))
    /\ UNCHANGED SMOthers

SMBandwidthChanged ==
    /\ \E b \in Bandwidths \ {sm.bandwidth} : sm' = CorrBandwidthChanged(Begin(sm), b)
    /\ UNCHANGED SMOthers

SMPair ==
    /\ sm.pairing < MaxPairs
    /\ sm' = CorrPair(Begin(sm))
    /\ UNCHANGED SMOthers

SMLoad ==
    /\ \E chosen \in BOOLEAN : sm' = CorrLoad(Begin(sm), chosen)
    /\ UNCHANGED SMOthers

\* onErrorLimitChanged
SMErrorLimitChanged ==
    /\ sm' = updatePlots(Invalidate(Begin(sm), "positions", {"dots"}))
    /\ UNCHANGED SMOthers

\* onArrowScaleChanged
SMArrowScaleChanged ==
    /\ sm' = updatePlots(Invalidate(Begin(sm), "positions", {"dots", "meteor"}))
    /\ UNCHANGED SMOthers

\* onResolutionChanged
SMResolutionChanged ==
    /\ sm' = updatePlots(InvalidateBoth(Begin(sm), {"grid"}))
    /\ UNCHANGED SMOthers

\* maskCatalogueDistant, maskCatalogueFaint: no correction plot is invalidated
SMMaskCatalogue ==
    /\ sm' = updatePlots(Begin(sm))
    /\ UNCHANGED SMOthers

\* tw_charts.currentChanged
SMChartChanged ==
    /\ \E i \in Charts \ {sm.index} : sm' = updatePlots([Begin(sm) EXCEPT !.index = i])
    /\ UNCHANGED SMOthers

\* cb_show_errors clicked
SMShowErrorsClicked ==
    /\ sm' = plotCorrectionErrors(Begin(sm), "positions")
    /\ UNCHANGED SMOthers

\* cb_show_grid clicked
SMShowGridClicked ==
    /\ sm' = plotCorrectionGrid(Begin(sm), "positions")
    /\ UNCHANGED SMOthers

---------------------------------------------------------------------------
(* Values written to the parameter controls by a fit or an import.  w is   *)
(* the controls, their blockSignals flags, the vector the projection in    *)
(* force was built from, and every vector a projection was built from      *)
(* since the handler began.                                                *)

\* The number of parameter controls modelled (the window has twelve).
NumControls == 3

ControlVectors == [1..NumControls -> {0, 1}]

\* updateProjection: BorovickaProjection(*self.getConstantsTuple())
WBupdateProjection(w) ==
    [w EXCEPT !.projection = w.controls, !.built = @ \cup {w.controls}]

\* blockParameterSignals reaching the first control only
blockParameterSignals_First(w, block) ==
    [w EXCEPT !.blocked = [i \in 1..NumControls |-> IF i = 1 THEN block ELSE @[i]]]

blockParameterSignals(w, block) ==
    [w EXCEPT !.blocked = [i \in 1..NumControls |-> block]]

\* widget.setValue(v): valueChanged runs onParametersChanged at once, unless the
\* value is the old one or the widget's signals are blocked
setValue(w, i, v) ==
    LET w1 == [w EXCEPT !.controls[i] = v]
    IN  IF v # w.controls[i] /\ ~w.blocked[i] THEN WBupdateProjection(w1) ELSE w1

\* minimize with a result in hand, or importFile with a file named
WBInit ==
    \E old, new \in ControlVectors, h \in {"minimize", "importFile"} :
        wb = [handler |-> h, old |-> old, new |-> new, controls |-> old,
              blocked |-> [i \in 1..NumControls |-> FALSE],
              projection |-> old, built |-> {}, i |-> 0, pc |-> "called"]

WBOthers == <<zs, es, nm, ms, sm, ft, pj, sk, er, up, ct, rw, wvars>>

\* self.blockParameterSignals(True)
WBBlock ==
    /\ wb.pc = "called"
    /\ wb' = [blockParameterSignals(wb, TRUE) EXCEPT !.i = 1, !.pc = "writing"]
    /\ UNCHANGED WBOthers

\* the next setValue
WBSetValue ==
    /\ wb.pc = "writing"
    /\ wb.i <= NumControls
    /\ wb' = [setValue(wb, wb.i, wb.new[wb.i]) EXCEPT !.i = wb.i + 1]
    /\ UNCHANGED WBOthers

\* self.blockParameterSignals(False)
WBUnblock ==
    /\ wb.pc = "writing"
    /\ wb.i > NumControls
    /\ wb' = [blockParameterSignals(wb, FALSE) EXCEPT !.pc = "unblocked"]
    /\ UNCHANGED WBOthers

\* minimize: onParametersChanged; importConstants: updateProjection, and then
\* importFile's onParametersChanged
WBRebuild ==
    /\ wb.pc = "unblocked"
    /\ wb' = [WBupdateProjection(wb) EXCEPT !.pc = "done"]
    /\ UNCHANGED WBOthers

\* importConstants: no such file, or not YAML; importFile goes on to onParametersChanged
WBUnreadable ==
    /\ wb.pc = "called"
    /\ wb.handler = "importFile"
    /\ wb' = [WBupdateProjection(wb) EXCEPT !.pc = "done"]
    /\ UNCHANGED WBOthers

\* importConstants: the file lacks a value; setValue raises a TypeError nobody
\* catches, and the slot's exception ends the process
WBSetValueRaises ==
    /\ wb.pc = "writing"
    /\ wb.handler = "importFile"
    /\ wb.i <= NumControls
    /\ wb' = [wb EXCEPT !.pc = "terminated"]
    /\ UNCHANGED WBOthers

---------------------------------------------------------------------------
(* The cached sky.  Matcher.sky holds the catalogue's horizontal           *)
(* coordinates as update_sky computed them; the model keeps the place and  *)
(* time they were computed for.  k is the window's location and time, its  *)
(* matcher, and the last read of the cached sky with the place and time    *)
(* the matcher had when it was read.                                       *)

\* The latest time dt_time is set to.
MaxTime == 2
SkyTimes == 0..MaxTime

NoSky == [location |-> -1, time |-> -1]
NoRead == [sky |-> NoSky, location |-> -1, time |-> -1]

\* Matcher.__init__: update(location, time); no sky yet
Matcher(loc, t) == Update([location |-> -1, time |-> -1, sky |-> NoSky], loc, t)

\* Matcher.update_sky: the catalogue converted at the matcher's location and time
update_sky(m) == [m EXCEPT !.sky = [location |-> m.location, time |-> m.time]]

\* Matchmaker.load_catalogue: the catalogue is read and its sky computed
load_catalogue(m) == update_sky(m)

\* loadYAML: a new matcher at the file's place and time, with its catalogue
SKLoaded(f) ==
    [location |-> FileLocation(f), time |-> FileTime(f),
     matcher |-> load_catalogue(Matcher(FileLocation(f), FileTime(f))),
     read |-> NoRead]

\* MainWindow.updateMatcher: matcher.update(location, time)
updateMatcher(k) == [k EXCEPT !.matcher = Update(k.matcher, k.location, k.time)]

SKInit == sk = SKLoaded(1)

SKOthers == <<zs, es, nm, ms, sm, wb, ft, pj, er, up, ct, rw, wvars>>

\* dt_time edited: updateTime, onLocationTimeChanged -> updateMatcher
SKTimeChanged ==
    /\ \E t \in SkyTimes \ {sk.time} : sk' = updateMatcher([sk EXCEPT !.time = t])
    /\ UNCHANGED SKOthers

\* dsb_lat or dsb_lon edited: updateLocation, onLocationTimeChanged -> updateMatcher
SKLocationChanged ==
    /\ \E loc \in Locations \ {sk.location} :
          sk' = updateMatcher([sk EXCEPT !.location = loc])
    /\ UNCHANGED SKOthers

\* File > Load with a file chosen: loadYAML, then onLocationTimeChanged -> updateMatcher
SKLoad ==
    /\ \E f \in Files : sk' = updateMatcher([SKLoaded(f) EXCEPT !.read = sk.read])
    /\ UNCHANGED SKOthers

\* a query that uses the cached sky
SKQuery ==
    /\ sk' = [sk EXCEPT !.read = [sky |-> sk.matcher.sky,
                                  location |-> sk.matcher.location,
                                  time |-> sk.matcher.time]]
    /\ UNCHANGED SKOthers

---------------------------------------------------------------------------
(* The projection instances.  Every BorovickaProjection(...) made is kept  *)
(* in p.heap, in the order made; p.current is the one MainWindow.projection *)
(* refers to, p.dsb the parameter controls, p.result what the fit returned. *)

\* The most projection instances followed.
MaxInstances == 8

\* updateProjection writing the new values into the instance it has
PJupdateProjection_InPlace(p) ==
    [p EXCEPT !.heap = [@ EXCEPT ![p.current] = Projection(p.dsb)]]

\* updateProjection: self.projection = BorovickaProjection(*self.getConstantsTuple())
PJupdateProjection(p) ==
    [p EXCEPT !.heap = Append(@, Projection(p.dsb)), !.current = Len(p.heap) + 1]

\* onParametersChanged: updateProjection (the plots and errors are left out)
PJonParametersChanged(p) == PJupdateProjection(p)

\* importConstants with a readable file: the values go to the controls with the
\* signals blocked, then updateProjection
PJimportConstants(p, v) == PJupdateProjection([p EXCEPT !.dsb = [par |-> v]])

\* __init__: updateProjection, importConstants('AGO.yaml'), onParametersChanged
PJInit ==
    pj = [PJonParametersChanged(PJimportConstants(
              PJupdateProjection([heap |-> <<>>, current |-> 0, dsb |-> [par |-> 0],
                                  result |-> 0, pc |-> "loop"]), 0))
          EXCEPT !.pc = "loop"]

PJOthers == <<zs, es, nm, ms, sm, wb, ft, sk, er, up, ct, rw, wvars>>

\* a parameter control is edited: valueChanged -> onParametersChanged
PJParameterEdited ==
    /\ pj.pc = "loop"
    /\ Len(pj.heap) < MaxInstances
    /\ \E v \in Pars \ {pj.dsb.par} :
          pj' = PJonParametersChanged([pj EXCEPT !.dsb = [par |-> v]])
    /\ UNCHANGED PJOthers

\* importFile with a readable file: importConstants, then onParametersChanged
PJImportFile ==
    /\ pj.pc = "loop"
    /\ Len(pj.heap) + 1 < MaxInstances
    /\ \E v \in Pars : pj' = PJonParametersChanged(PJimportConstants(pj, v))
    /\ UNCHANGED PJOthers

\* importFile with no file or an unreadable one: importConstants prints, then
\* onParametersChanged
PJImportFileFails ==
    /\ pj.pc = "loop"
    /\ Len(pj.heap) < MaxInstances
    /\ pj' = PJonParametersChanged(pj)
    /\ UNCHANGED PJOthers

\* MainWindow.minimize up to result = self.matcher.minimize(x0, maxiter): the fit
\* runs from the controls' values and returns a vector
PJMinimizeCalled ==
    /\ pj.pc = "loop"
    /\ \E v \in Pars : pj' = [pj EXCEPT !.result = v, !.pc = "fitted"]
    /\ UNCHANGED PJOthers

\* MainWindow.minimize from there: the vector goes to the controls, then
\* onParametersChanged
PJMinimizeApplied ==
    /\ pj.pc = "fitted"
    /\ Len(pj.heap) < MaxInstances
    /\ pj' = [PJonParametersChanged([pj EXCEPT !.dsb = [par |-> pj.result]])
              EXCEPT !.pc = "loop"]
    /\ UNCHANGED PJOthers

---------------------------------------------------------------------------
(* A fit in flight.  The window runs on one thread: a click is queued when *)
(* it is made and its handler runs when the event loop takes it, which is  *)
(* when no handler is running.  f is the place MainWindow.minimize has     *)
(* reached, the queue, whether w_input is enabled, and the number of times *)
(* the matcher's masks or pairing have been changed.                       *)

\* The most changes to the matcher followed.
MaxMutations == 2

\* the handlers that change the matcher's masks or pairing, or replace the matcher
Mutators == {"maskSensor", "maskCatalogueDistant", "maskCatalogueFaint",
             "resetValid", "pair", "loadYAMLFile"}

\* the callback dispatching what is queued, as QApplication.processEvents() would
Callback_ProcessEvents(f) ==
    IF f.pending # {} /\ f.mutations < MaxMutations
    THEN [f EXCEPT !.pending = {}, !.mutations = f.mutations + 1]
    ELSE f

\* callback=lambda x: print(x)
Callback(f) == f

FTInit ==
    ft = [pc |-> "loop", input_enabled |-> TRUE, pending |-> {}, mutations |-> 0,
          at_start |-> 0, maxiter |-> 0, iter |-> 0]

FTOthers == <<zs, es, nm, ms, sm, wb, pj, sk, er, up, ct, rw, wvars>>

\* the user clicks a button or picks File > Load, at any moment
FTUserActs ==
    /\ \E e \in Mutators \ ft.pending : ft' = [ft EXCEPT !.pending = @ \cup {e}]
    /\ UNCHANGED FTOthers

\* app.exec(): the event loop runs a queued handler to its end
FTDispatch ==
    /\ ft.pc = "loop"
    /\ ft.mutations < MaxMutations
    /\ \E e \in ft.pending :
          ft' = [ft EXCEPT !.pending = @ \ {e}, !.mutations = ft.mutations + 1]
    /\ UNCHANGED FTOthers

\* pb_optimize clicked: minimize starts, w_input.setEnabled(False)
FTClicked ==
    /\ ft.pc = "loop"
    /\ \E n \in 1..MaxIter :
          ft' = [ft EXCEPT !.pc = "disabled", !.input_enabled = FALSE,
                           !.at_start = ft.mutations, !.maxiter = n, !.iter = 0]
    /\ UNCHANGED FTOthers

\* self.matcher.minimize(x0, maxiter) is called
FTOptimize ==
    /\ ft.pc = "disabled"
    /\ ft' = [ft EXCEPT !.pc = "optimizing"]
    /\ UNCHANGED FTOthers

\* an iteration of the minimizer, ending in the callback
FTIterate ==
    /\ ft.pc = "optimizing"
    /\ ft.iter < ft.maxiter
    /\ ft' = Callback([ft EXCEPT !.iter = ft.iter + 1])
    /\ UNCHANGED FTOthers

\* the minimizer returns, converged or at maxiter
FTReturn ==
    /\ ft.pc = "optimizing"
    /\ ft' = [ft EXCEPT !.pc = "returned"]
    /\ UNCHANGED FTOthers

\* the result goes to the controls
FTWriteBack ==
    /\ ft.pc = "returned"
    /\ ft' = [ft EXCEPT !.pc = "written"]
    /\ UNCHANGED FTOthers

\* w_input.setEnabled(True)
FTEnable ==
    /\ ft.pc = "written"
    /\ ft' = [ft EXCEPT !.pc = "enabled", !.input_enabled = TRUE]
    /\ UNCHANGED FTOthers

\* onParametersChanged, and minimize returns to the event loop
FTParametersChanged ==
    /\ ft.pc = "enabled"
    /\ ft' = [ft EXCEPT !.pc = "loop"]
    /\ UNCHANGED FTOthers

---------------------------------------------------------------------------
(* The cached residuals.  What position_errors and magnitude_errors hold   *)
(* is recorded as what they were computed from: the matcher, the           *)
(* projection, the masks, the location and the time.  e.shown is the       *)
(* summary showErrors last wrote: the matcher that summarised and the      *)
(* residuals it was given.                                                 *)

MaskKinds == {"sensor", "distant", "faint"}

\* what a computation of residuals started now would use
Inputs(e) ==
    [matcher |-> e.matcher, projection |-> e.projection, masks |-> e.masks,
     location |-> e.location, time |-> e.time]

\* computePositionErrors, computeMagnitudeErrors
computeErrors(e) == [e EXCEPT !.position_errors = Inputs(e), !.magnitude_errors = Inputs(e)]

\* showErrors: self.matcher.avg_error(self.position_errors), max_error, outside_limit
showErrors(e) == [e EXCEPT !.shown = [by |-> e.matcher, errors |-> e.position_errors]]

\* updatePlots: showErrors, correctMeteor, then the chart on show
ERupdatePlots(e) == showErrors(e)

\* onParametersChanged: updateProjection from the controls, both errors, updatePlots
ERonParametersChanged(e) == ERupdatePlots(computeErrors([e EXCEPT !.projection = e.dsb]))

\* onLocationTimeChanged: updateMatcher, both errors, updatePlots
ERonLocationTimeChanged(e) == ERupdatePlots(computeErrors(e))

\* MainWindow.pair: the matcher replaced by matcher.pair(projection), the smoothers,
\* the plots invalidated, showCounts, updatePlots
ERpair(e) ==
    ERupdatePlots([e EXCEPT !.matcher = e.nobj + 1, !.nobj = e.nobj + 1, !.paired = TRUE])

\* loadYAML: the file's location and time, and a new Matchmaker with fresh containers
ERloadYAML(e, f) ==
    [e EXCEPT !.location = FileLocation(f), !.time = FileTime(f),
              !.matcher = e.nobj + 1, !.nobj = e.nobj + 1, !.paired = FALSE, !.masks = {}]

\* __init__: loadYAML of the first file, onParametersChanged
ERInit ==
    er = ERonParametersChanged(
             ERloadYAML([matcher |-> 0, nobj |-> 0, paired |-> FALSE, masks |-> {},
                         location |-> 0, time |-> 0, dsb |-> 0, projection |-> 0,
                         position_errors |-> <<>>, magnitude_errors |-> <<>>,
                         shown |-> <<>>], 1))

EROthers == <<zs, es, nm, ms, sm, wb, ft, pj, sk, up, ct, rw, wvars>>

\* a parameter control edited, constants imported, a fit applied
ERParametersChanged ==
    /\ \E v \in Pars : er' = ERonParametersChanged([er EXCEPT !.dsb = v])
    /\ UNCHANGED EROthers

\* onTimeChanged
ERTimeChanged ==
    /\ \E t \in Times \ {er.time} : er' = ERonLocationTimeChanged([er EXCEPT !.time = t])
    /\ UNCHANGED EROthers

\* onLocationChanged, selectStation
ERLocationChanged ==
    /\ \E l \in Locations \ {er.location} :
          er' = ERonLocationTimeChanged([er EXCEPT !.location = l])
    /\ UNCHANGED EROthers

\* onErrorLimitChanged: the plots invalidated, updatePlots
ERErrorLimitChanged ==
    /\ er' = ERupdatePlots(er)
    /\ UNCHANGED EROthers

\* maskSensor: mask_sensor_data, onParametersChanged
ERMaskSensor ==
    /\ er' = ERonParametersChanged([er EXCEPT !.masks = @ \cup {"sensor"}])
    /\ UNCHANGED EROthers

\* maskCatalogueDistant, maskCatalogueFaint: mask_catalogue, both errors, updatePlots
ERMaskCatalogue ==
    /\ \E k \in {"distant", "faint"} :
          er' = ERupdatePlots(computeErrors([er EXCEPT !.masks = @ \cup {k}]))
    /\ UNCHANGED EROthers

\* resetValid: reset_mask, onParametersChanged
ERResetValid ==
    /\ er' = ERonParametersChanged([er EXCEPT !.masks = {}])
    /\ UNCHANGED EROthers

\* pb_pair clicked
ERPair ==
    /\ er.nobj < MaxObjects
    /\ er' = ERpair(er)
    /\ UNCHANGED EROthers

\* loadYAMLFile with a file chosen: loadYAML, onLocationTimeChanged,
\* onParametersChanged, updatePlots
ERLoad ==
    /\ er.nobj < MaxObjects
    /\ \E f \in Files :
          er' = ERupdatePlots(ERonParametersChanged(ERonLocationTimeChanged(ERloadYAML(er, f))))
    /\ UNCHANGED EROthers

---------------------------------------------------------------------------
(* Redrawing.  The window in Unpaired mode: u.valid holds the validity     *)
(* flags of the sensor plot, the two sky plots (dots, stars) and the two   *)
(* error plots; u.index is the chart tw_charts shows; u.runs records, for  *)
(* each updatePlots of the handler that ran last, the chart, the flags it  *)
(* found and what it drew.  On charts 5 and 6 nothing is drawn unpaired.   *)

Artifacts == {"sensor", "pos_dots", "pos_stars", "mag_dots", "mag_stars", "pos_err", "mag_err"}

\* the artifacts of chart i
ArtifactsOf(i) ==
    CASE i = 0 -> {"sensor"}
      [] i = 1 -> {"pos_dots", "pos_stars"}
      [] i = 2 -> {"mag_dots", "mag_stars"}
      [] i = 3 -> {"pos_err"}
      [] i = 4 -> {"mag_err"}
      [] OTHER -> {}

\* plot.invalidate(), invalidate_dots(), invalidate_stars()
UPInvalidate(u, A) == [u EXCEPT !.valid = [a \in Artifacts |-> IF a \in A THEN FALSE ELSE @[a]]]

\* plot.update(...), update_dots(...), update_stars(...)
UPDraw(u, A) == [u EXCEPT !.valid = [a \in Artifacts |-> IF a \in A THEN TRUE ELSE @[a]]]

\* what updatePlots draws on chart i with the flags v: the test each branch makes
\* and the plot function it calls
Redrawn(i, v) ==
    CASE i = 0 -> IF ~v["sensor"] THEN {"sensor"} ELSE {}
      [] i = 1 -> (IF ~v["pos_dots"] THEN {"pos_dots"} ELSE {})
                      \cup (IF ~v["pos_stars"] THEN {"pos_stars"} ELSE {})
      [] i = 2 -> (IF ~v["mag_dots"] THEN {"mag_dots"} ELSE {})
                      \cup (IF ~v["mag_stars"] THEN {"mag_stars"} ELSE {})
      [] i = 3 -> IF ~v["pos_err"] THEN {"pos_err"} ELSE {}
      [] i = 4 -> IF ~v["pos_err"] THEN {"mag_err"} ELSE {}
      [] OTHER -> {}

\* updatePlots
UPupdatePlots(u) ==
    LET d == Redrawn(u.index, u.valid)
    IN  [UPDraw(u, d) EXCEPT
            !.runs = @ \cup {[index |-> u.index, before |-> u.valid, drawn |-> d]}]

\* onParametersChanged
UPonParametersChanged(u) ==
    UPupdatePlots(UPInvalidate(u, {"pos_dots", "mag_dots", "pos_err", "mag_err"}))

\* onLocationTimeChanged
UPonLocationTimeChanged(u) ==
    UPupdatePlots(UPInvalidate(u, {"pos_stars", "mag_stars", "pos_err", "mag_err"}))

\* the handler starts
UPBegin(u) == [u EXCEPT !.runs = {}]

\* __init__: the plots are made, then onParametersChanged; the chart on show comes
\* from the form
UPInit ==
    \E i \in Charts :
        up = UPonParametersChanged([index |-> i, valid |-> [a \in Artifacts |-> FALSE],
                                    runs |-> {}])

UPOthers == <<zs, es, nm, ms, sm, wb, ft, pj, sk, er, ct, rw, wvars>>

\* a parameter control edited, constants imported, a fit applied, maskSensor,
\* resetValid
UPParametersChanged ==
    /\ up' = UPonParametersChanged(UPBegin(up))
    /\ UNCHANGED UPOthers

\* onTimeChanged, onLocationChanged, selectStation
UPLocationTimeChanged ==
    /\ up' = UPonLocationTimeChanged(UPBegin(up))
    /\ UNCHANGED UPOthers

\* onErrorLimitChanged
UPErrorLimitChanged ==
    /\ up' = UPupdatePlots(UPInvalidate(UPBegin(up), {"pos_dots", "pos_err"}))
    /\ UNCHANGED UPOthers

\* maskCatalogueDistant, maskCatalogueFaint
UPMaskCatalogue ==
    /\ up' = UPupdatePlots(UPInvalidate(UPBegin(up), {"pos_stars"}))
    /\ UNCHANGED UPOthers

\* loadYAMLFile: onLocationTimeChanged, onParametersChanged, sensorPlot.invalidate(),
\* updatePlots
UPLoad ==
    /\ up' = UPupdatePlots(UPInvalidate(
                 UPonParametersChanged(UPonLocationTimeChanged(UPBegin(up))), {"sensor"}))
    /\ UNCHANGED UPOthers

\* tw_charts.currentChanged -> updatePlots
UPChartChanged ==
    /\ \E i \in Charts \ {up.index} : up' = UPupdatePlots([UPBegin(up) EXCEPT !.index = i])
    /\ UNCHANGED UPOthers

---------------------------------------------------------------------------
(* Construction.  c.pc is the statement of MainWindow.__init__ reached,    *)
(* c.set the fields among matcher, location, time and projection that are  *)
(* no longer None, c.connected the signals that have a slot, c.runs the    *)
(* handlers that have run, each with the fields it found set.              *)

Fields == {"matcher", "location", "time", "projection"}

\* the signals connectSignalSlots connects, by the handler each one reaches
Signals ==
    {"onParametersChanged", "onTimeChanged", "onLocationChanged", "maskSensor",
     "maskCatalogueDistant", "maskCatalogueFaint", "resetValid", "pair", "minimize",
     "loadYAMLFile"}

\* __init__ connecting the signals before the file is loaded
InitOrder_ConnectFirst ==
    <<"populateStations", "updateProjection", "connectSignalSlots", "loadYAML",
      "importConstants", "onParametersChanged">>

\* the statements of __init__ that set a field, connect a signal or run a handler
InitOrder ==
    <<"populateStations", "updateProjection", "loadYAML", "importConstants",
      "onParametersChanged", "connectSignalSlots">>

\* what a handler assigns before it uses the matcher
Assigns(h) ==
    CASE h = "onParametersChanged" -> {"projection"}
      [] h = "onTimeChanged" -> {"time"}
      [] h = "onLocationChanged" -> {"location"}
      [] OTHER -> {}

\* handler h runs: its own assignments, then its calls on the matcher
Run(c, h) ==
    [c EXCEPT !.set = @ \cup Assigns(h),
              !.runs = @ \cup {[handler |-> h, set |-> c.set \cup Assigns(h)]}]

\* a control's value is set by the program: the signal reaches its slot when it
\* has one
Emit(c, h) == IF h \in c.connected THEN Run(c, h) ELSE c

\* loadYAML: setLocation, updateLocation, setTime, updateTime, Matchmaker(...)
CTloadYAML(c) ==
    LET c1 == Emit(c, "onLocationChanged")
        c2 == [c1 EXCEPT !.set = @ \cup {"location"}]
        c3 == Emit(c2, "onTimeChanged")
    IN  [c3 EXCEPT !.set = @ \cup {"time", "matcher"}]

\* one statement of __init__
Statement(c, st) ==
    CASE st = "populateStations" -> [c EXCEPT !.connected = @ \cup {"selectStation"}]
      [] st = "updateProjection" -> [c EXCEPT !.set = @ \cup {"projection"}]
      [] st = "loadYAML" -> CTloadYAML(c)
      [] st = "importConstants" -> [c EXCEPT !.set = @ \cup {"projection"}]
      [] st = "onParametersChanged" -> Run(c, "onParametersChanged")
      [] st = "connectSignalSlots" -> [c EXCEPT !.connected = @ \cup Signals]

\* window = MainWindow(): the fields are None
CTInit == ct = [pc |-> 1, loop |-> FALSE, set |-> {}, connected |-> {}, runs |-> {}]

CTOthers == <<zs, es, nm, ms, sm, wb, ft, pj, sk, er, up, rw, wvars>>

\* the next statement of __init__
CTConstruct ==
    /\ ct.pc <= Len(InitOrder)
    /\ ct' = [Statement(ct, InitOrder[ct.pc]) EXCEPT !.pc = ct.pc + 1]
    /\ UNCHANGED CTOthers

\* window.showMaximized(), app.exec()
CTExec ==
    /\ ct.pc > Len(InitOrder)
    /\ ~ct.loop
    /\ ct' = [ct EXCEPT !.loop = TRUE]
    /\ UNCHANGED CTOthers

\* the user acts on a control whose signal has a slot
CTSignal ==
    /\ ct.loop
    /\ \E h \in ct.connected : ct' = Run(ct, h)
    /\ UNCHANGED CTOthers

---------------------------------------------------------------------------
(* Reading the controls and writing them back.  A control shows a whole    *)
(* number of steps (its decimals).  A float is [c, k, err]: c steps times  *)
(* (pi/180)^k, off by err units in the last place; np.radians and          *)
(* np.degrees each multiply once and round once.                           *)

\* The largest control value, in steps.
MaxStep == 2
\* One step of a control in units in the last place of its value, at the least, and
\* the rounding of one multiplication.
Step == 1000
UlpMul == 1

ControlValues == -1..MaxStep
Ulps == -UlpMul..UlpMul

\* np.radians(x), np.degrees(x), rounded by e
Radians(n, e) == [n EXCEPT !.k = @ + 1, !.err = @ + e]
Degrees(n, e) == [n EXCEPT !.k = @ - 1, !.err = @ + e]

\* widget.value(): the steps shown, exactly
Shown(c) == [c |-> c, k |-> 0, err |-> 0]

\* widget.setValue(n): n rounded to the control's decimals; pi/180 is 100/5730 here
Rounded(n) ==
    LET scaled == CASE n.k = 0 -> n.c * Step
                    [] n.k > 0 -> (n.c * Step * 100) \div 5730
                    [] n.k < 0 -> (n.c * Step * 5730) \div 100
    IN  (scaled + n.err + Step \div 2) \div Step

\* the components getConstantsTuple passes through np.radians
InRadians == {"a0", "F", "eps", "E"}

\* minimize writing V back in degrees and eps as it is
InDegrees_Shifted == {"a0", "F", "V", "E"}

\* the components minimize passes through np.degrees
InDegrees == {"a0", "F", "eps", "E"}

\* x0, y0, a0, A, F, V, S, D, P, Q, e, E = tuple(result.x), by the control each goes to
WriteOrder == <<"x0", "y0", "a0", "A", "F", "V", "S", "D", "P", "Q", "eps", "E">>

\* getConstantsTuple, the multiplications rounded by e
getConstantsTuple(controls, e) ==
    [i \in 1..12 |->
        IF ParamOrder[i] \in InRadians
        THEN Radians(Shown(controls[ParamOrder[i]]), e[ParamOrder[i]])
        ELSE Shown(controls[ParamOrder[i]])]

\* minimize: the 12 setValue calls on the vector x, the multiplications rounded by e
WrittenBack(x, e) ==
    [name \in {WriteOrder[i] : i \in 1..12} |->
        LET i == CHOOSE j \in 1..12 : WriteOrder[j] = name
        IN  IF name \in InDegrees THEN Rounded(Degrees(x[i], e[name])) ELSE Rounded(x[i])]

\* the controls show some values: one of them a, the others b
RWInit ==
    \E name \in {ParamOrder[i] : i \in 1..12}, a, b \in ControlValues :
        rw = [controls |-> [n \in {ParamOrder[i] : i \in 1..12} |-> IF n = name THEN a ELSE b],
              x |-> <<>>, before |-> <<>>, pc |-> "shown"]

RWOthers == <<zs, es, nm, ms, sm, wb, ft, pj, sk, er, up, ct, wvars>>

\* x0 = self.getConstantsTuple()
RWRead ==
    /\ rw.pc = "shown"
    /\ \E e \in [InRadians -> Ulps] :
          rw' = [rw EXCEPT !.x = getConstantsTuple(rw.controls, e), !.pc = "read"]
    /\ UNCHANGED RWOthers

\* the vector read comes back as result.x and goes to the controls
RWWrite ==
    /\ rw.pc = "read"
    /\ \E e \in [InDegrees -> Ulps] :
          rw' = [rw EXCEPT !.before = rw.controls, !.controls = WrittenBack(rw.x, e),
                           !.pc = "written"]
    /\ UNCHANGED RWOthers

---------------------------------------------------------------------------
(* Specifications                                                          *)

ZIdle == [epsilon |-> Ang(0, 0), E |-> Ang(0, 0), u |-> Ang(0, 0), b |-> Ang(0, 0),
          fwd |-> NoShift, inv |-> NoShift, pc |-> "idle"]
EIdle == [m |-> [count |-> 0, count_valid |-> 0], errors |-> <<>>,
          avg |-> NaN, max |-> NaN, pc |-> "idle"]
NIdle == [x0 |-> <<>>, maxiter |-> 0, x |-> <<>>, iter |-> 0, pc |-> "idle",
          success |-> FALSE, nit |-> 0, controls |-> <<>>, alive |-> TRUE]
MSIdle == [pc |-> "idle"]
SMIdle == [pc |-> "idle"]
WBIdle == [pc |-> "idle"]
FTIdle == [pc |-> "idle"]
PJIdle == [pc |-> "idle"]
SKIdle == [pc |-> "idle"]
ERIdle == [pc |-> "idle"]
UPIdle == [pc |-> "idle"]
CTIdle == [pc |-> "idle"]
RWIdle == [pc |-> "idle"]
UIdle == er = ERIdle /\ up = UPIdle /\ ct = CTIdle /\ rw = RWIdle
TIdle == ms = MSIdle /\ sm = SMIdle /\ wb = WBIdle /\ ft = FTIdle /\ pj = PJIdle /\ sk = SKIdle /\ UIdle

\* The window in use
Init == WInit /\ zs = ZIdle /\ es = EIdle /\ nm = NIdle /\ TIdle
Next ==
    \/ ParameterEdited \/ onTimeChanged \/ onLocationChanged \/ selectStation
    \/ onErrorLimitChanged
    \/ maskSensor \/ maskCatalogueDistant \/ maskCatalogueFaint \/ resetValid
    \/ pair \/ minimize \/ importFile \/ loadYAMLFile \/ loadYAMLFileCancelled
Spec == Init /\ [][Next]_vars

\* Masking, reset and masking again
MaskInit ==
    /\ MSInit /\ sm = SMIdle /\ wb = WBIdle /\ ft = FTIdle /\ pj = PJIdle /\ sk = SKIdle /\ UIdle
    /\ zs = ZIdle /\ es = EIdle /\ nm = NIdle /\ WInit
MaskNext == MSMask \/ MSReset \/ MSReplay \/ MSDone
MaskSpec == MaskInit /\ [][MaskNext]_vars

\* The corrections
CorrectionInit ==
    /\ SMInit /\ ms = MSIdle /\ wb = WBIdle /\ ft = FTIdle /\ pj = PJIdle /\ sk = SKIdle /\ UIdle
    /\ zs = ZIdle /\ es = EIdle /\ nm = NIdle /\ WInit
CorrectionNext ==
    \/ SMParametersChanged \/ SMLocationTimeChanged \/ SMBandwidthChanged
    \/ SMPair \/ SMLoad \/ SMErrorLimitChanged \/ SMArrowScaleChanged
    \/ SMResolutionChanged \/ SMMaskCatalogue \/ SMChartChanged
    \/ SMShowErrorsClicked \/ SMShowGridClicked
CorrectionSpec == CorrectionInit /\ [][CorrectionNext]_vars

\* The write-back of a parameter vector
WriteBackInit ==
    /\ WBInit /\ ms = MSIdle /\ sm = SMIdle /\ ft = FTIdle /\ pj = PJIdle /\ sk = SKIdle /\ UIdle
    /\ zs = ZIdle /\ es = EIdle /\ nm = NIdle /\ WInit
WriteBackNext ==
    \/ WBBlock \/ WBSetValue \/ WBUnblock \/ WBRebuild \/ WBUnreadable
    \/ WBSetValueRaises
WriteBackSpec == WriteBackInit /\ [][WriteBackNext]_vars

\* The six scenarios above at rest
SIdle == ms = MSIdle /\ sm = SMIdle /\ wb = WBIdle /\ ft = FTIdle /\ pj = PJIdle /\ sk = SKIdle

\* The cached residuals
ResidualInit ==
    /\ ERInit /\ up = UPIdle /\ ct = CTIdle /\ rw = RWIdle /\ SIdle
    /\ zs = ZIdle /\ es = EIdle /\ nm = NIdle /\ WInit
ResidualNext ==
    \/ ERParametersChanged \/ ERTimeChanged \/ ERLocationChanged \/ ERErrorLimitChanged
    \/ ERMaskSensor \/ ERMaskCatalogue \/ ERResetValid \/ ERPair \/ ERLoad
ResidualSpec == ResidualInit /\ [][ResidualNext]_vars

\* Redrawing
RedrawInit ==
    /\ UPInit /\ er = ERIdle /\ ct = CTIdle /\ rw = RWIdle /\ SIdle
    /\ zs = ZIdle /\ es = EIdle /\ nm = NIdle /\ WInit
RedrawNext ==
    \/ UPParametersChanged \/ UPLocationTimeChanged \/ UPErrorLimitChanged
    \/ UPMaskCatalogue \/ UPLoad \/ UPChartChanged
RedrawSpec == RedrawInit /\ [][RedrawNext]_vars

\* Construction
ConstructionInit ==
    /\ CTInit /\ er = ERIdle /\ up = UPIdle /\ rw = RWIdle /\ SIdle
    /\ zs = ZIdle /\ es = EIdle /\ nm = NIdle /\ WInit
ConstructionNext == CTConstruct \/ CTExec \/ CTSignal
ConstructionSpec == ConstructionInit /\ [][ConstructionNext]_vars

\* Reading and writing the controls
ControlsInit ==
    /\ RWInit /\ er = ERIdle /\ up = UPIdle /\ ct = CTIdle /\ SIdle
    /\ zs = ZIdle /\ es = EIdle /\ nm = NIdle /\ WInit
ControlsNext == RWRead \/ RWWrite
ControlsSpec == ControlsInit /\ [][ControlsNext]_vars

\* The cached sky
SkyInit ==
    /\ SKInit /\ ms = MSIdle /\ sm = SMIdle /\ wb = WBIdle /\ ft = FTIdle /\ pj = PJIdle /\ UIdle
    /\ zs = ZIdle /\ es = EIdle /\ nm = NIdle /\ WInit
SkyNext == SKTimeChanged \/ SKLocationChanged \/ SKLoad \/ SKQuery
SkySpec == SkyInit /\ [][SkyNext]_vars

\* The projection instances
ProjectionInit ==
    /\ PJInit /\ ms = MSIdle /\ sm = SMIdle /\ wb = WBIdle /\ ft = FTIdle /\ sk = SKIdle /\ UIdle
    /\ zs = ZIdle /\ es = EIdle /\ nm = NIdle /\ WInit
ProjectionNext ==
    \/ PJParameterEdited \/ PJImportFile \/ PJImportFileFails
    \/ PJMinimizeCalled \/ PJMinimizeApplied
ProjectionSpec == ProjectionInit /\ [][ProjectionNext]_vars

\* A fit and the event queue
FitInit ==
    /\ FTInit /\ ms = MSIdle /\ sm = SMIdle /\ wb = WBIdle /\ pj = PJIdle /\ sk = SKIdle /\ UIdle
    /\ zs = ZIdle /\ es = EIdle /\ nm = NIdle /\ WInit
FitNext ==
    \/ FTUserActs \/ FTDispatch \/ FTClicked \/ FTOptimize \/ FTIterate
    \/ FTReturn \/ FTWriteBack \/ FTEnable \/ FTParametersChanged
FitSpec == FitInit /\ [][FitNext]_vars

\* The zenith shift on its own
ZenithInit == ZInit /\ es = EIdle /\ nm = NIdle /\ TIdle /\ WInit
ZenithNext == Forward \/ Invert
ZenithSpec == ZenithInit /\ [][ZenithNext]_vars

\* The error summaries on their own
ErrorInit == EInit /\ zs = ZIdle /\ nm = NIdle /\ TIdle /\ WInit
ErrorNext == Summarise
ErrorSpec == ErrorInit /\ [][ErrorNext]_vars

\* The fit on its own
MinimizeInit == NInit /\ zs = ZIdle /\ es = EIdle /\ TIdle /\ WInit
MinimizeNext == NMStart \/ NMIterate \/ NMReturn \/ NMApply
MinimizeSpec == MinimizeInit /\ [][MinimizeNext]_vars

---------------------------------------------------------------------------
(* The zenith shift: C1, C2, C3                                            *)

Shifted == zs.pc \in {"shifted", "inverted"}

\* C1: the azimuth the forward zenith shift returns lies in [0, 2*pi), for every
\* epsilon, E, u and b, in the small-epsilon branch and in the spherical one.
ForwardAzimuthWrapped ==
    Shifted => AngLeq(Ang(0, 0), zs.fwd.a) /\ AngLess(zs.fwd.a, Ang(4, 0))

\* x and y agree within 1e-9 rad
Close(x, y) == x.q = y.q /\ AbsI(x.t - y.t) <= 10000000

\* C2: invert applied to the output of the forward shift of (u, b), u in [0, pi] and
\* b in [0, 2*pi), returns (u, b) again within tolerance, for every epsilon and E.
InvertRecoversPoint ==
    zs.pc = "inverted" => Close(zs.inv.z, zs.u) /\ Close(zs.inv.a, zs.b)

\* |epsilon| < 1e-14, as the claim states it
BelowThreshold(epsilon) == epsilon.q = 0 /\ -100 < epsilon.t /\ epsilon.t < 100

\* C3: for |eps| < 1e-14 the shift takes the degenerate branch, z = u and a = E + b
\* (inverse: u = z, b = a - E), and divides by nothing; for every other eps it takes
\* the spherical branch (law of cosines for the zenith angle, one division by
\* sin(eps)); forward and inverse switch at the same threshold.
BranchesAtThreshold ==
    /\ Shifted =>
          IF BelowThreshold(zs.epsilon)
          THEN /\ zs.fwd.branch = "degenerate"
               /\ zs.fwd.z = zs.u
               /\ zs.fwd.a = Mod2Pi(AngAdd(zs.E, zs.b))
               /\ zs.fwd.divisors = {}
          ELSE /\ zs.fwd.branch = "spherical"
               /\ Cos(zs.fwd.z) = Sub(Mul(Cos(zs.u), Cos(zs.epsilon)),
                                      Mul(Mul(Sin(zs.u), Sin(zs.epsilon)), Cos(zs.b)))
               /\ zs.fwd.divisors = {Sin(zs.epsilon)}
               /\ Sin(zs.epsilon) # Num(0, 0)
    /\ zs.pc = "inverted" =>
          /\ zs.inv.branch = zs.fwd.branch
          /\ IF BelowThreshold(zs.epsilon)
             THEN /\ zs.inv.z = zs.fwd.z
                  /\ zs.inv.a = Mod2Pi(AngSub(zs.fwd.a, zs.E))
                  /\ zs.inv.divisors = {}
             ELSE /\ Cos(zs.inv.z) =
                         Add(Mul(Cos(zs.fwd.z), Cos(zs.epsilon)),
                             Mul(Mul(Sin(zs.fwd.z), Sin(zs.epsilon)),
                                 Cos(AngSub(zs.fwd.a, zs.E))))
                  /\ zs.inv.divisors = {Sin(zs.epsilon)}

\* A shifter with epsilon exactly 1e-14, shifted and inverted.
BranchesAtThresholdWitness ==
    /\ zs.pc = "inverted"
    /\ zs.epsilon = Ang(0, 100)
    /\ zs.u = Ang(1, 0)
    /\ zs.b = Ang(1, 0)
    /\ zs.fwd.branch = "spherical"
    /\ zs.inv.branch = "spherical"

---------------------------------------------------------------------------
(* The error summaries: C4, C5, C6                                         *)

\* C4: avg_error(errors) is NaN for an empty array; otherwise it is
\* sqrt(sum of squares / count), count being the matcher's total count, not
\* count_valid, whatever the masks.
AvgErrorNormalisedByCount ==
    es.pc = "done" =>
        IF Len(es.errors) = 0
        THEN es.avg = NaN
        ELSE /\ es.avg.kind = "sqrt"
             /\ es.avg.den > 0
             /\ es.avg.num * es.m.count = SumSq(es.errors) * es.avg.den

\* A masked matcher summarised: fewer valid stars than stars, residuals not all zero.
AvgErrorWitness ==
    /\ es.pc = "done"
    /\ es.m.count_valid < es.m.count
    /\ es.m.count_valid > 0
    /\ Len(es.errors) = es.m.count_valid
    /\ SumSq(es.errors) > 0

MaxAbs(errors) == SeqMax([i \in 1..Len(errors) |-> AbsI(errors[i])])

\* C5: max_error(errors) is NaN for an empty array; otherwise it is the largest
\* absolute residual, also when some residuals are negative.
MaxErrorIsLargestAbsolute ==
    es.pc = "done" =>
        IF Len(es.errors) = 0
        THEN es.max = NaN
        ELSE es.max = Value(MaxAbs(es.errors))

\* C6: for a single-element array [v], on any matcher,
\* avg_error([v]) = max_error([v]) = abs(v).
SingleResidualSummaries ==
    (es.pc = "done" /\ Len(es.errors) = 1) =>
        /\ es.avg.kind = "sqrt"
        /\ es.avg.num = es.errors[1] * es.errors[1] * es.avg.den
        /\ es.max = Value(AbsI(es.errors[1]))

---------------------------------------------------------------------------
(* The fit: C7                                                             *)

\* C7: for any x0 and any maxiter >= 1 the vector minimize returns has V >= 0 and
\* eps >= 0: the bounds sit on exactly the positions of V and eps in the order
\* (x0, y0, a0, A, F, V, S, D, P, Q, eps, E); every other parameter is free.
FitRespectsBounds ==
    /\ Len(Bounds) = Len(ParamOrder)
    /\ \A i \in 1..Len(ParamOrder) :
          Bounds[i] = IF ParamOrder[i] \in {"V", "eps"} THEN NonNegative ELSE Free
    /\ nm.pc = "returned" =>
          /\ nm.maxiter >= 1
          /\ Len(nm.x) = Len(ParamOrder)
          /\ nm.x[Position("V")] >= 0
          /\ nm.x[Position("eps")] >= 0

\* A fit from a start with V and eps below zero that moved a free parameter down.
FitRespectsBoundsWitness ==
    /\ nm.pc = "returned"
    /\ nm.x0[Position("V")] < 0
    /\ nm.x0[Position("eps")] < 0
    /\ nm.iter = nm.maxiter
    /\ nm.x[Position("F")] < 0

---------------------------------------------------------------------------
(* Pairing and masks in the window: C8, C9, C10                            *)

\* C8: the transition from Unpaired to Paired is irreversible: once the window is
\* Paired no sequence of operations (parameter changes, time or location changes,
\* masking, reset, fitting, import, file load) returns it to Unpaired.
PairedForever ==
    [][Paired => Paired']_vars

\* C8, amended: once the window is Paired it stays Paired under every operation
\* but the load of a sensor-data file, which starts over with a new Matchmaker; and
\* only pair makes an Unpaired window Paired.
PairedUntilLoad ==
    [][/\ (Paired /\ last' # "loadYAMLFile") => Paired'
       /\ (Paired /\ last' = "loadYAMLFile") => ~Paired'
       /\ (~Paired /\ Paired') => last' = "pair"]_vars

\* A paired window, masked, after a change of time.
PairedUntilLoadWitness ==
    /\ Paired
    /\ last = "onTimeChanged"
    /\ CountValid(sensor_data) < Len(sensor_data.valid)

MaskingHandlers == {"maskSensor", "maskCatalogueDistant", "maskCatalogueFaint"}
PairingHandlers == {"pair", "loadYAMLFile"}

\* C9: pair gives a new matcher, distinct from the one it is called on, Paired, with
\* the same containers, location and time; after it the pairing is frozen: no change
\* of parameters, time or location, no masking, reset or fit computes it again, only
\* another pair does.
PairingFrozen ==
    [][/\ last' = "pair" =>
             /\ matcher'.kind = "Counselor"
             /\ matcher'.id # matcher.id
             /\ matcher'.containers = matcher.containers
             /\ matcher'.location = matcher.location
             /\ matcher'.time = matcher.time
             /\ matcher'.pairing = Pairing(matcher, sensor_data, catalogue, projection)
             /\ sensor_data' = sensor_data
             /\ catalogue' = catalogue
       /\ last' \notin PairingHandlers =>
             /\ matcher'.id = matcher.id
             /\ matcher'.pairing = matcher.pairing]_vars

\* A paired window moved to a place and time where pairing again would pair
\* otherwise, with the pairing it was given.
PairingFrozenWitness ==
    /\ Paired
    /\ last \in {"onTimeChanged", "onLocationChanged", "selectStation"}
    /\ matcher.pairing # Pairing(matcher, ResetMask(sensor_data), ResetMask(catalogue),
                                 projection)
    /\ CountValid(sensor_data) = Len(sensor_data.valid)
    /\ CountValid(catalogue) = Len(catalogue.valid)

\* every entry valid in d was valid in c
Within(d, c) ==
    /\ Len(d.valid) = Len(c.valid)
    /\ \A i \in 1..Len(c.valid) : d.valid[i] => c.valid[i]

\* C10: masking only excludes further: an entry once invalid stays invalid under
\* every masking call, whatever the mask; count_valid of a container never grows
\* without a reset; reset_mask makes every entry valid again.
MasksOnlyExclude ==
    [][/\ last' \in MaskingHandlers =>
             /\ Within(sensor_data', sensor_data)
             /\ Within(catalogue', catalogue)
       /\ (matcher'.containers = matcher.containers /\ last' # "resetValid") =>
             /\ Within(sensor_data', sensor_data)
             /\ Within(catalogue', catalogue)
             /\ CountValid(sensor_data') <= CountValid(sensor_data)
             /\ CountValid(catalogue') <= CountValid(catalogue)
       /\ last' = "resetValid" =>
             /\ sensor_data'.valid = AllValid(Len(sensor_data.valid))
             /\ catalogue'.valid = AllValid(Len(catalogue.valid))]_vars

\* Sensor stars were masked at a parameter value under which a masked star would
\* now pass the limit, and masked again there: the star is still out.
MasksOnlyExcludeWitness ==
    /\ last = "maskSensor"
    /\ \E i \in 1..Len(sensor_data.valid) :
          /\ ~sensor_data.valid[i]
          /\ ~SensorBeyond(matcher, sensor_data, catalogue, projection,
                           dsb.error_limit)[i]

---------------------------------------------------------------------------
(* Masks and counts: C11, C12                                              *)

MasksFit(st, cat) ==
    /\ Len(st.valid) = StarCount(st)
    /\ Len(cat.valid) = CatalogueCount
    /\ CountValid(st) <= StarCount(st)
    /\ CountValid(cat) <= CatalogueCount

CountKeepers == MaskingHandlers \cup {"resetValid", "pair", "minimize"}

\* C12: in every reachable state the validity mask of the sensor stars and that of
\* the catalogue are as long as the underlying sequence and count_valid <= count;
\* count does not change under masking, reset, pairing or fitting.
MasksFitCounts ==
    [][/\ MasksFit(sensor_data, catalogue)
       /\ MasksFit(sensor_data', catalogue')
       /\ last' \in CountKeepers =>
             /\ StarCount(sensor_data') = StarCount(sensor_data)
             /\ Len(sensor_data'.valid) = Len(sensor_data.valid)
             /\ Len(catalogue'.valid) = Len(catalogue.valid)]_vars

\* A paired matcher with stars masked on both sides, after a fit.
MasksFitCountsWitness ==
    /\ Paired
    /\ last = "minimize"
    /\ CountValid(sensor_data) < StarCount(sensor_data)
    /\ CountValid(catalogue) < CatalogueCount

---------------------------------------------------------------------------
(* The correction fields: C13                                              *)

\* C13: whenever the projection, the pairing, the calibration or the bandwidth changes,
\* both correction fields are rebuilt with the current projection, calibration and
\* bandwidth before the handler returns, so no grid or meteor correction query reads
\* a position or magnitude field built from a superseded one.
FieldsRebuiltBeforeRead ==
    /\ sm.paired => /\ Current(sm, sm.position_smoother)
                    /\ Current(sm, sm.magnitude_smoother)
    /\ \A q \in sm.calls : q.current

---------------------------------------------------------------------------
(* The write-back: C14                                                     *)

\* C14: a fit or an import writes the values back with change notifications blocked
\* for every control, and the projection is built again only when all the values
\* are in place: every projection is built from the vector before the write or from
\* the whole new one, never from a mixture.
NoMixedProjection ==
    /\ wb.pc # "idle" =>
          /\ wb.projection \in {wb.old, wb.new}
          /\ wb.built \subseteq {wb.old, wb.new}
    /\ wb.pc = "writing" =>
          /\ \A i \in 1..NumControls : wb.blocked[i]
          /\ wb.built = {}
    /\ (wb.pc = "done" /\ wb.i > NumControls) =>
          /\ wb.controls = wb.new
          /\ wb.projection = wb.new
          /\ \A i \in 1..NumControls : ~wb.blocked[i]

\* A write of a vector that differs from the old one in every component is half
\* done: the controls hold a mixture, and the projection is the old one.
NoMixedProjectionWitness ==
    /\ wb.pc = "writing"
    /\ wb.i = 3
    /\ \A i \in 1..NumControls : wb.new[i] # wb.old[i]
    /\ wb.controls \notin {wb.old, wb.new}
    /\ wb.projection = wb.old

---------------------------------------------------------------------------
(* The fit in flight: C15                                                  *)

FitInFlight == ft.pc \in {"disabled", "optimizing", "returned", "written", "enabled"}

\* C15: the matcher's masks and pairing are not changed while a fit is in flight: the
\* fit runs to its end on the calling thread, input is disabled before the optimizer
\* starts and enabled again only when it has returned and its result is written
\* back, and no masking, reset, pairing or load runs in between.
FitRunsAlone ==
    [][/\ FitInFlight => ft.mutations = ft.at_start
       /\ FitInFlight' => ft'.mutations = ft'.at_start
       /\ ft.pc \in {"optimizing", "returned"} => ~ft.input_enabled
       /\ (~ft.input_enabled /\ ft'.input_enabled) => ft.pc = "written"
       /\ (ft.pc = "optimizing" /\ ft'.pc # "optimizing") =>
             /\ ft'.pc = "returned"
             /\ ft'.iter <= ft'.maxiter]_vars

\* The minimizer has iterated with a click waiting in the queue, after the matcher
\* had been changed before the fit.
FitRunsAloneWitness ==
    /\ ft.pc = "optimizing"
    /\ ft.iter > 0
    /\ ft.pending # {}
    /\ ft.mutations > 0

---------------------------------------------------------------------------
(* The cached sky: C16                                                     *)

---------------------------------------------------------------------------
(* A fit that does not converge: C17                                       *)

\* C17: non-convergence is not fatal: for every x0 and maxiter, minimize can return
\* whenever it iterates, what it returns carries a vector of 12 values and the
\* diagnostics (success, the iterations done) whether it converged or not, the
\* window applies that vector to its controls, and the process goes on.
NonConvergenceNotFatal ==
    /\ nm.alive
    /\ nm.pc = "iterating" => ENABLED NMReturn
    /\ nm.pc \in {"returned", "applied"} =>
          /\ Len(nm.x) = 12
          /\ nm.success \in BOOLEAN
          /\ nm.nit = nm.iter /\ nm.nit <= nm.maxiter
    /\ nm.pc = "returned" => ENABLED NMApply
    /\ nm.pc = "applied" => nm.controls = nm.x

\* A fit that ran out of iterations unconverged, away from where it started, applied.
NonConvergenceNotFatalWitness ==
    /\ nm.pc = "applied"
    /\ ~nm.success
    /\ nm.iter = nm.maxiter
    /\ nm.controls # Clip(nm.x0)

---------------------------------------------------------------------------
(* The zenith shift near epsilon = 0: C18                                  *)

\* epsilon = 1e-15
TinyEpsilon == Ang(0, 10)

\* C18: for every E and every (u, b), the forward shift at epsilon = 1e-15 agrees
\* within tolerance with the forward shift at epsilon = 0, and the inverse at
\* epsilon = 1e-15 with the inverse at epsilon = 0.
ContinuousAtZero ==
    /\ (Shifted /\ zs.epsilon = TinyEpsilon) =>
          LET at0 == ZenithShifterCall(Ang(0, 0), zs.E, zs.u, zs.b)
          IN  Close(zs.fwd.z, at0.z) /\ Close(zs.fwd.a, at0.a)
    /\ (zs.pc = "inverted" /\ zs.epsilon = TinyEpsilon) =>
          LET at0 == ZenithShifterInvert(Ang(0, 0), zs.E, zs.fwd.z, zs.fwd.a)
          IN  Close(zs.inv.z, at0.z) /\ Close(zs.inv.a, at0.a)

\* A point off the zenith, shifted and inverted with epsilon = 1e-15 and E not 0.
ContinuousAtZeroWitness ==
    /\ zs.pc = "inverted"
    /\ zs.epsilon = TinyEpsilon
    /\ zs.E # Ang(0, 0)
    /\ zs.u = Ang(1, 0)
    /\ zs.b = Ang(1, 0)

---------------------------------------------------------------------------
(* The projection instances: C19                                           *)

\* C19: a projection is never changed in place: every instance made stays as it was
\* made; every change of the parameters (a control edited, constants imported, a fit
\* applied) makes the window's projection a new instance built from the controls'
\* values; Matcher.minimize leaves the window's projection and the instances made
\* so far alone, and the projection changes only when the window rebuilds it.
ProjectionsNeverMutated ==
    [][/\ Len(pj'.heap) >= Len(pj.heap)
       /\ \A i \in 1..Len(pj.heap) : pj'.heap[i] = pj.heap[i]
       /\ pj'.dsb # pj.dsb =>
             /\ pj'.current > Len(pj.heap)
             /\ pj'.heap[pj'.current] = Projection(pj'.dsb)
       /\ pj'.current # pj.current => pj'.current > Len(pj.heap)
       /\ pj'.pc = "fitted" => pj'.heap = pj.heap /\ pj'.current = pj.current]_vars

\* A fit has returned a vector other than the controls' after the projection had been
\* replaced by one with other values: the earlier instances are all still there.
ProjectionsNeverMutatedWitness ==
    /\ pj.pc = "fitted"
    /\ pj.result # pj.dsb.par
    /\ pj.heap[pj.current] # pj.heap[1]
    /\ pj.current = Len(pj.heap)

---------------------------------------------------------------------------
(* Correction outputs and the mode: C20                                    *)

---------------------------------------------------------------------------
(* The cached residuals: C21                                               *)

\* C21: when a handler ends, the cached position and magnitude errors were computed
\* by the current matcher under the current projection, masks, location and time,
\* and the summary on show was made by the matcher that produced its residuals.
ErrorsAreCurrent ==
    /\ er.position_errors = Inputs(er)
    /\ er.magnitude_errors = Inputs(er)
    /\ er.shown.by = er.shown.errors.matcher

---------------------------------------------------------------------------
(* Redrawing: C22                                                          *)

\* C22: updatePlots redraws an artifact of the chart on show exactly when that
\* artifact's own flag says it is invalid; on the magnitude-error chart (index 4) the
\* magnitude errors are replotted whenever the magnitude error plot is invalid,
\* whatever the position error plot's flag.
RedrawsWhatIsInvalid ==
    \A r \in up.runs : r.drawn = {a \in ArtifactsOf(r.index) : ~r.before[a]}

---------------------------------------------------------------------------
(* Construction: C23                                                       *)

\* C23: no handler uses the matcher before one exists: every handler that has run
\* found the matcher, the location, the time and the projection set, and the
\* parameter, time, location, mask, pair and fit signals have slots only once all
\* four are set.
HandlersFindMatcher ==
    /\ \A r \in ct.runs : r.set = Fields
    /\ ct.connected \cap Signals # {} => ct.set = Fields

\* The window is up and the user has paired, fitted and changed the time, after
\* the onParametersChanged of __init__.
HandlersFindMatcherWitness ==
    /\ ct.loop
    /\ {r.handler : r \in ct.runs} = {"onParametersChanged", "pair", "minimize", "onTimeChanged"}

---------------------------------------------------------------------------
(* Reading and writing the controls: C24                                   *)

\* C24: reading the 12 values and writing a vector back use the same order, the
\* components converted to radians on reading (a0, F, eps, E) are those converted to
\* degrees on writing, and writing back the vector just read leaves every control
\* as it was.
ReadThenWriteIsIdentity ==
    rw.pc = "written" =>
        /\ rw.controls = rw.before
        /\ \A i \in 1..12 : rw.x[i].c = rw.before[ParamOrder[i]]
        /\ \A i \in 1..12 : rw.x[i].k = (IF ParamOrder[i] \in {"a0", "F", "eps", "E"} THEN 1 ELSE 0)

\* An angle and a plain parameter that differ and are not zero, read with rounding
\* in the conversion and written back.
ReadThenWriteIsIdentityWitness ==
    /\ rw.pc = "written"
    /\ rw.before["eps"] > 0
    /\ rw.before["V"] < 0
    /\ rw.x[11].err # 0
    /\ rw.x[3].err # rw.x[11].err

===========================================================================
